---- MODULE Spec2Model ----
(***************************************************************************)
(* Verification model of the secure_voice_chat client core:                *)
(*   - QualityMonitor (qualityMonitor.js) and the older AudioQualityMonitor*)
(*   - SpeakingDetector (client/src/utils/speakingDetector.js)             *)
(*   - WebRTCManager, audio version (webrtcManager.js, audio only)         *)
(*   - WebRTCManager, video version (written by the webrtcManager fix      *)
(*     script) with its screen-sharing operations                          *)
(* Each component has its own specification; the variables of the other    *)
(* components stay at their initial values.                                *)
(***************************************************************************)
EXTENDS Integers, Sequences, FiniteSets, TLC

VARIABLES
  qm,         \* QualityMonitor instance: timer, in-flight getStats, this.stats
  qmCalls,    \* labels delivered to QualityMonitor.onQualityChange, in order
  qmLabels,   \* history: label computed by each completed _checkQuality
  aqm,        \* AudioQualityMonitor (webrtc utils) instance
  aqmCalls,   \* labels delivered to AudioQualityMonitor.onQualityChange
  aqmLabels,  \* history: label computed by each completed checkQuality
  qmClock,    \* Date.now() as the monitors see it (ms)
  qmTicks,    \* number of timer firings so far (bounded)
  ql,         \* threshold-table check: the report and the label computed
  wq,         \* WebRTCQualityMonitor (video presets) instance, with the
              \* preset its last step recommended and its ticks as history
  sd,         \* SpeakingDetector instance
  sdNow,      \* Date.now() as the detector sees it (ms)
  sdHist,     \* history: samples [t, above] since the detector was started
  sdCalls,    \* history: onSpeakingChange calls [t, val] since start
  sdTicks,    \* number of sampling ticks so far (bounded)
  sdDelivered, \* history: every value passed to onSpeakingChange in the run
  active,     \* the users whose manager runs in this specification
  opts,       \* per user: the callbacks passed to the constructor
  mgr,        \* per user: the fields of the audio WebRTCManager
  pcs,        \* per user: the RTCPeerConnection objects created so far
  tracks,     \* per user: the local audio tracks captured so far
  dets,       \* per user: the SpeakingDetector objects created so far
  mons,       \* per user: the AudioQualityMonitor objects created so far
  gum,        \* per user: getUserMedia requests of initialize() in flight
  cb,         \* per user: the callbacks the user's last step invoked
  sent,       \* per user: the signaling messages the user's last step emitted
  net,        \* signaling messages in transit between active users (FIFO)
  srv,        \* the signaling server: registered sockets, last handler's emits
  hist,       \* per user: consecutive leaveRoom calls, calls made, last result,
              \* whether a capture was denied since the last leaveRoom, and
              \* whether a retry regained the microphone initialize() was denied
  vm,         \* the fields of the video-capable WebRTCManager, whether its
              \* socket listeners are registered, and as history the events
              \* that found no listener and the peers whose offer it answered
  vtracks,    \* the media tracks the video-capable manager captured so far
  ss,         \* history: the senders before a screen share, and its progress
  vcb,        \* the peer-removal and screen-sharing callbacks the video
              \* manager's last step invoked
  vret        \* what the screen-sharing operation that settled in the video
              \* manager's last step returned ("none" when none settled)

qmVars == <<qm, qmCalls, qmLabels, aqm, aqmCalls, aqmLabels, qmClock, qmTicks>>
qlVars == <<ql, wq>>
sdVars == <<sd, sdNow, sdHist, sdCalls, sdTicks, sdDelivered>>
mVars == <<active, opts, mgr, pcs, tracks, dets, mons, gum, cb, sent, net, srv,
           hist>>
vVars == <<vm, vtracks, ss, vcb, vret>>
vars == <<qmVars, qlVars, sdVars, mVars, vVars>>

\* JavaScript null / undefined for numeric fields
Null == 0 - 1

(***************************************************************************)
(* Bounds of the model                                                     *)
(***************************************************************************)
MaxTicks == 3       \* timer firings of the quality monitors in one run
MaxPending == 2     \* getStats() requests in flight at once
SDMaxTicks == 7     \* sampling ticks of the speaking detector in one run

(***************************************************************************)
(* QualityMonitor (qualityMonitor.js)                                      *)
(***************************************************************************)
\* options.interval default
QMInterval == 2000

\* options.qualityThresholds: packet loss in percent, rtt in ms
QualityThresholds ==
  [excellent |-> [packetLoss |-> 1,  rtt |-> 150],
   good      |-> [packetLoss |-> 3,  rtt |-> 300],
   fair      |-> [packetLoss |-> 8,  rtt |-> 500],
   poor      |-> [packetLoss |-> 15, rtt |-> 1000]]

\* A packet-loss fraction num/den (den > 0) compared with pct/100, exactly.
LossLE(pl, pct) == pl.num * 100 <= pct * pl.den

\* A statistics report as _checkQuality locates it: the nominated candidate
\* pair (currentRoundTripTime, given here in ms) and the inbound audio record.
\* crt = Null stands for a pair without currentRoundTripTime.
Report(pair, crt, inbound, lost, recv, bytes, jitter) ==
  [pair |-> pair, crt |-> crt, inbound |-> inbound, lost |-> lost,
   recv |-> recv, bytes |-> bytes, jitter |-> jitter]

\* rtt = candidatePair.currentRoundTripTime ? currentRoundTripTime * 1000 : null
\* (a JavaScript truthiness test: 0 and undefined both give null)
CalcRtt(r) == IF r.pair /\ r.crt # Null /\ r.crt # 0 THEN r.crt ELSE Null

\* packetLoss === null
NullLoss == [num |-> Null, den |-> 0]

\* packetLoss = totalPackets > 0 ? packetsLost / totalPackets : 0
CalcPacketLoss(r) ==
  IF ~r.inbound THEN NullLoss
  ELSE IF r.lost + r.recv > 0 THEN [num |-> r.lost, den |-> r.lost + r.recv]
       ELSE [num |-> 0, den |-> 1]

\* jitter = inboundRtp.jitter ? inboundRtp.jitter * 1000 : null
CalcJitter(r) == IF r.inbound /\ r.jitter # Null /\ r.jitter # 0 THEN r.jitter ELSE Null

\* The if / else-if chain that determines the quality level.
DetermineQuality(rtt, pl) ==
  LET T == QualityThresholds IN
  IF rtt = Null \/ pl = NullLoss THEN "unknown"
  ELSE IF LossLE(pl, T.excellent.packetLoss) /\ rtt <= T.excellent.rtt THEN "excellent"
  ELSE IF LossLE(pl, T.good.packetLoss) /\ rtt <= T.good.rtt THEN "good"
  ELSE IF LossLE(pl, T.fair.packetLoss) /\ rtt <= T.fair.rtt THEN "fair"
  ELSE IF LossLE(pl, T.poor.packetLoss) /\ rtt <= T.poor.rtt THEN "poor"
  ELSE "bad"

\* bandwidth: bits per second from the byte delta over the wall-clock delta
CalcBandwidth(stats, r, now) ==
  IF r.inbound /\ stats.timestamp # Null /\ stats.timestamp # 0 /\ now - stats.timestamp > 0
  THEN LET bytesLast == IF stats.bytesReceived = Null THEN 0 ELSE stats.bytesReceived
       IN ((r.bytes - bytesLast) * 8 * 1000) \div (now - stats.timestamp)
  ELSE Null

\* this.stats as the constructor sets it
QMInitStats ==
  [rtt |-> Null, jitter |-> Null, packetLoss |-> NullLoss, bandwidth |-> Null,
   bytesReceived |-> Null, timestamp |-> Null, quality |-> "unknown"]

\* "Notify if quality changed"
QMShouldNotifyAlways(quality, prevQuality) == TRUE
QMShouldNotify(quality, prevQuality) == quality # prevQuality

\* The statistics the model feeds to a tick.
QMReports ==
  { Report(FALSE, Null, FALSE, 0, 0, 0, Null),
    Report(TRUE, 120, TRUE, 5, 995, 2000, 5),
    Report(TRUE, 120, TRUE, 5, 995, 6000, 5),
    Report(TRUE, 400, TRUE, 50, 950, 6000, 40),
    Report(TRUE, 1200, TRUE, 200, 800, 8000, 200),
    Report(TRUE, 0, TRUE, 0, 1000, 8000, 0) }

\* start(): if (this.monitorInterval) return; setInterval(...)
QMStart ==
  /\ ~qm.monitorInterval
  /\ qm' = [qm EXCEPT !.monitorInterval = TRUE]
  /\ UNCHANGED <<qmCalls, qmLabels, aqm, aqmCalls, aqmLabels, qmClock, qmTicks>>

\* stop(): clearInterval
QMStop ==
  /\ qm.monitorInterval
  /\ qm' = [qm EXCEPT !.monitorInterval = FALSE]
  /\ UNCHANGED <<qmCalls, qmLabels, aqm, aqmCalls, aqmLabels, qmClock, qmTicks>>

\* The interval timer fires: _checkQuality runs up to `await getStats()`.
QMTickStart ==
  /\ qm.monitorInterval
  /\ qmTicks < MaxTicks
  /\ qm.pending < MaxPending
  /\ qm' = [qm EXCEPT !.pending = @ + 1]
  /\ qmTicks' = qmTicks + 1
  /\ qmClock' = qmClock + QMInterval
  /\ UNCHANGED <<qmCalls, qmLabels, aqm, aqmCalls, aqmLabels>>

\* getStats() resolves with report r: the rest of _checkQuality.
QMTickDone(r) ==
  /\ qm.pending > 0
  /\ LET rtt == CalcRtt(r)
         pl == CalcPacketLoss(r)
         quality == DetermineQuality(rtt, pl)
         prevQuality == qm.stats.quality
         newStats == [rtt |-> rtt, jitter |-> CalcJitter(r), packetLoss |-> pl,
                      bandwidth |-> CalcBandwidth(qm.stats, r, qmClock),
                      bytesReceived |-> IF r.inbound THEN r.bytes ELSE Null,
                      timestamp |-> qmClock, quality |-> quality]
     IN /\ qm' = [qm EXCEPT !.pending = @ - 1, !.stats = newStats]
        /\ qmLabels' = Append(qmLabels, quality)
        /\ qmCalls' = IF QMShouldNotify(quality, prevQuality)
                      THEN Append(qmCalls, quality) ELSE qmCalls
  /\ UNCHANGED <<aqm, aqmCalls, aqmLabels, qmClock, qmTicks>>

\* getStats() rejects: the catch block only logs.
QMTickFail ==
  /\ qm.pending > 0
  /\ qm' = [qm EXCEPT !.pending = @ - 1]
  /\ UNCHANGED <<qmCalls, qmLabels, aqm, aqmCalls, aqmLabels, qmClock, qmTicks>>

(***************************************************************************)
(* AudioQualityMonitor of the WebRTC utility module                        *)
(***************************************************************************)
\* this.qualityThresholds: packet loss in percent, jitter in ms
AqmThresholds ==
  [excellent |-> [packetLoss |-> 1,  jitter |-> 10],
   good      |-> [packetLoss |-> 3,  jitter |-> 30],
   fair      |-> [packetLoss |-> 8,  jitter |-> 50],
   poor      |-> [packetLoss |-> 15, jitter |-> 100]]

\* packetsLost || 0, packetsReceived || 1, jitter || 0 and the level chain
AqmQuality(r) ==
  LET T == AqmThresholds
      lost == r.lost
      recv == IF r.recv = 0 THEN 1 ELSE r.recv
      pl == [num |-> lost, den |-> lost + recv]
      jitter == IF r.jitter = Null THEN 0 ELSE r.jitter
  IN IF LossLE(pl, T.excellent.packetLoss) /\ jitter <= T.excellent.jitter THEN "excellent"
     ELSE IF LossLE(pl, T.good.packetLoss) /\ jitter <= T.good.jitter THEN "good"
     ELSE IF LossLE(pl, T.fair.packetLoss) /\ jitter <= T.fair.jitter THEN "fair"
     ELSE IF LossLE(pl, T.poor.packetLoss) /\ jitter <= T.poor.jitter THEN "poor"
     ELSE "bad"

AqmStart ==
  /\ ~aqm.intervalId
  /\ aqm' = [aqm EXCEPT !.intervalId = TRUE]
  /\ UNCHANGED <<qm, qmCalls, qmLabels, aqmCalls, aqmLabels, qmClock, qmTicks>>

AqmStop ==
  /\ aqm.intervalId
  /\ aqm' = [aqm EXCEPT !.intervalId = FALSE]
  /\ UNCHANGED <<qm, qmCalls, qmLabels, aqmCalls, aqmLabels, qmClock, qmTicks>>

\* The interval timer fires: checkQuality runs up to `await getStats()`.
AqmTickStart ==
  /\ aqm.intervalId
  /\ qmTicks < MaxTicks
  /\ aqm.pending < MaxPending
  /\ aqm' = [aqm EXCEPT !.pending = @ + 1]
  /\ qmTicks' = qmTicks + 1
  /\ qmClock' = qmClock + QMInterval
  /\ UNCHANGED <<qm, qmCalls, qmLabels, aqmCalls, aqmLabels>>

\* getStats() resolves: without an inbound audio record checkQuality returns.
AqmTickDone(r) ==
  /\ aqm.pending > 0
  /\ IF ~r.inbound
     THEN /\ aqm' = [aqm EXCEPT !.pending = @ - 1]
          /\ UNCHANGED <<aqmCalls, aqmLabels>>
     ELSE LET quality == AqmQuality(r) IN
          /\ aqmLabels' = Append(aqmLabels, quality)
          /\ IF quality # aqm.currentQuality
             THEN /\ aqm' = [aqm EXCEPT !.pending = @ - 1, !.currentQuality = quality]
                  /\ aqmCalls' = Append(aqmCalls, quality)
             ELSE /\ aqm' = [aqm EXCEPT !.pending = @ - 1]
                  /\ UNCHANGED aqmCalls
  /\ UNCHANGED <<qm, qmCalls, qmLabels, qmClock, qmTicks>>

AqmTickFail ==
  /\ aqm.pending > 0
  /\ aqm' = [aqm EXCEPT !.pending = @ - 1]
  /\ UNCHANGED <<qm, qmCalls, qmLabels, aqmCalls, aqmLabels, qmClock, qmTicks>>

(***************************************************************************)
(* The threshold table on its own: one report in, one label out            *)
(***************************************************************************)
\* Round-trip times (ms) and losses (packets lost of LossTotal) around every
\* bound of the table, and the two cases the design names.
LossTotal == 1000
RttValues == {0, 1, 120, 150, 151, 300, 301, 400, 500, 501, 1000, 1001}
LostValues == {0, 5, 10, 11, 30, 31, 50, 80, 81, 150, 151, 1000}

QLApply ==
  /\ ~ql.done
  /\ ql' = [ql EXCEPT !.done = TRUE,
                      !.label = DetermineQuality(CalcRtt(ql.report),
                                                 CalcPacketLoss(ql.report))]
  /\ UNCHANGED <<wq, qmVars, sdVars, mVars, vVars>>

(***************************************************************************)
(* WebRTCQualityMonitor: video presets and adaptive quality                *)
(***************************************************************************)
WqMaxTicks == 4     \* timer firings of the video quality monitor in one run

\* this.qualityPresets: the bitrate (bps) and frame rate of each preset
Presets == {"low", "medium", "high", "hd"}
PresetBitrate(q) ==
  CASE q = "low" -> 400000 [] q = "medium" -> 800000
    [] q = "high" -> 1500000 [] q = "hd" -> 3000000
PresetFrameRate(q) ==
  CASE q = "low" -> 15 [] q = "medium" -> 24 [] OTHER -> 30

\* What the application passes to setQuality: a preset id, 'auto', or an
\* object of custom settings
SetQualityArgs == Presets \cup {"auto", "object"}

\* Measurements of one tick: round-trip time (ms), bitrate (bps), frame rate
WqRtts == {50, 120, 200, 400}
WqBitrates == {200000, 1000000, 3000000}
WqFrameRates == {5, 20, 30}

\* The constructor with default options: `adaptiveQuality !== false`.
\* rec: the settings onQualityChange received in the last step; byApp:
\* whether the application chose a preset itself since construction.
WqInit ==
  [currentQuality |-> "high", adaptiveQuality |-> TRUE, monitorInterval |-> FALSE,
   hasLast |-> FALSE, networkQuality |-> 100, rec |-> "none", byApp |-> FALSE,
   ticks |-> 0]
WqInit0 == wq = WqInit

\* `this.qualityPresets[this.currentQuality]?.bitrate || 1500000` and
\* `...?.frameRate || 30`
TargetBitrate(q) == IF q \in Presets THEN PresetBitrate(q) ELSE 1500000
TargetFrameRate(q) == IF q \in Presets THEN PresetFrameRate(q) ELSE 30

\* The quality score of a tick (0-100)
WqClamp(x) == IF x < 0 THEN 0 ELSE IF x > 100 THEN 100 ELSE x
QualityScore(q, rtt, bitrate, frameRate) ==
  LET byRtt == IF rtt > 500 THEN 40 ELSE IF rtt > 300 THEN 25
               ELSE IF rtt > 150 THEN 10 ELSE IF rtt > 100 THEN 5 ELSE 0
      tb == TargetBitrate(q)
      byBitrate == IF bitrate * 10 < tb * 3 THEN 40
                   ELSE IF bitrate * 10 < tb * 5 THEN 25
                   ELSE IF bitrate * 10 < tb * 7 THEN 10 ELSE 0
      tf == TargetFrameRate(q)
      byFrames == IF frameRate * 10 < tf * 3 THEN 30
                  ELSE IF frameRate * 10 < tf * 5 THEN 20
                  ELSE IF frameRate * 10 < tf * 7 THEN 10 ELSE 0
  IN WqClamp(100 - byRtt - byBitrate - byFrames)

\* adaptVideoQuality: the preset the network conditions call for
TargetQuality(qualityScore, rtt) ==
  IF qualityScore < 30 \/ rtt > 300 THEN "low"
  ELSE IF qualityScore < 60 \/ rtt > 150 THEN "medium"
  ELSE IF qualityScore < 85 \/ rtt > 100 THEN "high"
  ELSE "hd"

\* setQuality(preset): 'auto' is no key of qualityPresets, so the lookup
\* throws into the catch before the branch that would enable adaptive mode
SetQuality(w, preset) ==
  IF preset = "auto" THEN w
  ELSE [w EXCEPT !.currentQuality = IF preset = "object" THEN "custom" ELSE preset,
                 !.adaptiveQuality = FALSE,
                 !.rec = preset]

AdaptVideoQuality(w, qualityScore, rtt) ==
  LET targetQuality == TargetQuality(qualityScore, rtt) IN
  IF targetQuality # w.currentQuality THEN SetQuality(w, targetQuality) ELSE w

\* startMonitoring(peerConnection, peerId)
WqStartMonitoring ==
  /\ wq' = [wq EXCEPT !.monitorInterval = TRUE, !.rec = "none"]
  /\ UNCHANGED ql

\* stopMonitoring()
WqStopMonitoring ==
  /\ wq.monitorInterval
  /\ wq' = [wq EXCEPT !.monitorInterval = FALSE, !.rec = "none"]
  /\ UNCHANGED ql

\* One firing of the 2 s timer with the getStats() it awaits: the first one
\* only stores the stats, the later ones score them and adapt.
WqTick(rtt, bitrate, frameRate) ==
  /\ wq.monitorInterval
  /\ wq.ticks < WqMaxTicks
  /\ LET w == [wq EXCEPT !.rec = "none", !.ticks = @ + 1, !.hasLast = TRUE]
         score == QualityScore(wq.currentQuality, rtt, bitrate, frameRate)
         w1 == [w EXCEPT !.networkQuality = score]
     IN wq' = IF ~wq.hasLast THEN w
              ELSE IF wq.adaptiveQuality THEN AdaptVideoQuality(w1, score, rtt)
              ELSE w1
  /\ UNCHANGED ql

\* setQuality(preset), called by the application
WqSetQuality(preset) ==
  /\ wq' = [SetQuality([wq EXCEPT !.rec = "none"], preset) EXCEPT
              !.byApp = IF preset = "auto" THEN @ ELSE TRUE]
  /\ UNCHANGED ql

(***************************************************************************)
(* SpeakingDetector (client/src/utils/speakingDetector.js)                 *)
(***************************************************************************)
\* options.threshold (dB), options.interval, options.minSpeakingTime and
\* options.speakingDecayTime (ms) defaults
SDThreshold == 0 - 50
SDInterval == 100
MinSpeakingTime == 200
SpeakingDecayTime == 500

\* _getVolumeLevel() without an analyser returns -Infinity
NegInfinity == 0 - 100000

\* Volume levels (dB) fed to a tick: exactly at the threshold, and above it.
SDLevels == {SDThreshold, SDThreshold + 10}

\* A sampling timer fires on time or one period late.
SDDelays == {SDInterval, 2 * SDInterval}

\* !x for a timestamp field
Falsy(t) == t = Null \/ t = 0

SDInit ==
  [speaking |-> FALSE, speakingStartTime |-> Null, silenceStartTime |-> Null,
   checkInterval |-> FALSE, analyser |-> FALSE]

\* now - this.speakingStartTime >= this.options.minSpeakingTime
SDReachedMinStrict(now, start) == now - start > MinSpeakingTime
SDReachedMin(now, start) == now - start >= MinSpeakingTime

\* this.silenceStartTime = null, in the above-threshold branch
SDSilenceOnSoundKeep(silenceStartTime) == silenceStartTime
SDSilenceOnSound(silenceStartTime) == Null

\* _checkSpeaking with volumeLevel and now given: the new fields and the
\* callback made ("none", "true" or "false").
CheckSpeaking(d, volumeLevel, now) ==
  IF volumeLevel > SDThreshold
  THEN LET st == IF Falsy(d.speakingStartTime) THEN now ELSE d.speakingStartTime
           fire == ~d.speaking /\ SDReachedMin(now, st)
       IN [d |-> [d EXCEPT !.speakingStartTime = st,
                           !.silenceStartTime = SDSilenceOnSound(d.silenceStartTime),
                           !.speaking = IF fire THEN TRUE ELSE @],
           call |-> IF fire THEN "true" ELSE "none"]
  ELSE LET sl == IF Falsy(d.silenceStartTime) THEN now ELSE d.silenceStartTime
           fire == d.speaking /\ ~Falsy(sl) /\ now - sl >= SpeakingDecayTime
       IN [d |-> [d EXCEPT !.silenceStartTime = sl,
                           !.speaking = IF fire THEN FALSE ELSE @,
                           !.speakingStartTime = IF fire THEN Null ELSE @],
           call |-> IF fire THEN "false" ELSE "none"]

\* start(): no-op while running; _initAudio() may fail (ok = FALSE), which
\* leaves the detector without a live analyser.
SDStart(ok) ==
  /\ ~sd.checkInterval
  /\ sd' = [sd EXCEPT !.checkInterval = TRUE, !.analyser = ok]
  /\ sdHist' = <<>>
  /\ sdCalls' = <<>>
  /\ UNCHANGED <<sdNow, sdTicks, sdDelivered>>

\* stop() without the reset of the two timestamps
SDStopKeepsTimers ==
  /\ sd.checkInterval
  /\ sd' = [sd EXCEPT !.checkInterval = FALSE, !.analyser = FALSE,
                      !.speaking = FALSE]
  /\ sdHist' = <<>>
  /\ sdCalls' = <<>>
  /\ UNCHANGED <<sdNow, sdTicks, sdDelivered>>

\* stop(): clears the timer, closes the audio context, resets the fields.
SDStop ==
  /\ sd.checkInterval
  /\ sd' = [sd EXCEPT !.checkInterval = FALSE, !.analyser = FALSE,
                      !.speaking = FALSE, !.speakingStartTime = Null,
                      !.silenceStartTime = Null]
  /\ sdHist' = <<>>
  /\ sdCalls' = <<>>
  /\ UNCHANGED <<sdNow, sdTicks, sdDelivered>>

\* The sampling timer fires after `delay` ms with the analyser at `level` dB.
SDTick(level, delay) ==
  /\ sd.checkInterval
  /\ sdTicks < SDMaxTicks
  /\ LET now == sdNow + delay
         volumeLevel == IF sd.analyser THEN level ELSE NegInfinity
         res == CheckSpeaking(sd, volumeLevel, now)
     IN /\ sdNow' = now
        /\ sd' = res.d
        /\ sdHist' = Append(sdHist, [t |-> now, above |-> volumeLevel > SDThreshold])
        /\ sdCalls' = IF res.call = "none" THEN sdCalls
                      ELSE Append(sdCalls, [t |-> now, val |-> res.call = "true"])
        /\ sdDelivered' = IF res.call = "none" THEN sdDelivered
                          ELSE Append(sdDelivered, res.call = "true")
  /\ sdTicks' = sdTicks + 1

(***************************************************************************)
(* WebRTCManager, audio version (webrtcManager.js)                         *)
(*                                                                         *)
(* RTCPeerConnection is modelled by its signaling state machine and its    *)
(* operations chain: createOffer, createAnswer, setLocalDescription,       *)
(* setRemoteDescription and addIceCandidate are queued on the connection   *)
(* and complete one at a time, in order; the code that awaits an operation *)
(* continues in the step in which the operation completes.                 *)
(***************************************************************************)
Users == {"A", "B", "C"}
Others(n) == IF n \in active THEN Users \ {n} ELSE {}

MaxCalls == 3       \* operations the application calls on one manager in a run
MaxConns == 2       \* RTCPeerConnection objects one user creates in a run
MaxQueue == 1       \* operations queued on one connection by incoming messages
MaxGum == 2         \* initialize() runs of one user that request a capture
MaxCandidates == 1  \* local ICE candidates one connection gathers
CapCount == 1       \* cap of the count of candidates applied to a connection
StopCap == 2        \* cap of the stop() and close() counters kept as history

Bump(x) == IF x < CapCount THEN x + 1 ELSE x
BumpStop(x) == IF x < StopCap THEN x + 1 ELSE x

\* Map semantics of this.peerConnections / this.audioQualityMonitors:
\* a set of entries [key, val], Map.set replacing the entry of the key.
MapHas(map, k) == \E e \in map : e.key = k
MapGet(map, k) == IF MapHas(map, k) THEN (CHOOSE e \in map : e.key = k).val ELSE Null
MapSetKeepOld(map, k, v) == map \cup {[key |-> k, val |-> v]}
MapSet(map, k, v) == {e \in map : e.key # k} \cup {[key |-> k, val |-> v]}
MapDelete(map, K) == {e \in map : e.key \notin K}
MapKeys(map) == {e.key : e \in map}

\* The constructor's "State" block
MgrInit ==
  [roomId |-> "null", localStream |-> Null, peerConnections |-> {},
   audioQualityMonitors |-> {}, speakingDetector |-> Null,
   microphoneInitialized |-> FALSE, microphonePermissionRequested |-> FALSE,
   permissionDenied |-> FALSE, socketBound |-> TRUE]

\* new RTCPeerConnection(config) after the addTrack calls and the handler
\* assignments of _createPeerConnection
NewPc(peer, senders) ==
  [peer |-> peer, signalingState |-> "stable", connectionState |-> "new",
   handlers |-> TRUE, senders |-> senders, ops |-> <<>>,
   localDesc |-> FALSE, remoteDesc |-> FALSE, candidates |-> 0,
   gather |-> Null, tracked |-> FALSE, closes |-> 0]

\* How the public operation that settled last ended: "ok" or "threw"
NoRet == "none"

\* The part of the state one user's handlers read and write, with the
\* callbacks a step invokes (cb), the messages it emits (out) and how the
\* public operation that settles in it ends (ret).
World(n) ==
  [mgr |-> mgr[n], pcs |-> pcs[n], tracks |-> tracks[n], dets |-> dets[n],
   mons |-> mons[n], gum |-> gum[n], cb |-> <<>>, ret |-> NoRet, out |-> <<>>,
   has |-> opts[n]]

\* Messages appended to the FIFO channels towards the active users
Deliver(n, out) ==
  [ch \in DOMAIN net |->
     LET mine == SelectSeq(out, LAMBDA m : ch = <<n, m.to>>)
     IN net[ch] \o [i \in 1..Len(mine) |-> mine[i].type]]

\* The operations the application calls
PublicOps == {"initialize", "startCall", "acceptIncomingCall", "handleAnswer",
              "addIceCandidate", "leaveRoom", "dispose", "retryMicrophoneAccess"}
CanCall(n) == n \in active /\ hist[n].calls < MaxCalls

\* The step of user n ends in world w, having run operation op.
Commit(n, w, op) ==
  /\ mgr' = [mgr EXCEPT ![n] = w.mgr]
  /\ pcs' = [pcs EXCEPT ![n] = w.pcs]
  /\ tracks' = [tracks EXCEPT ![n] = w.tracks]
  /\ dets' = [dets EXCEPT ![n] = w.dets]
  /\ mons' = [mons EXCEPT ![n] = w.mons]
  /\ gum' = [gum EXCEPT ![n] = w.gum]
  /\ cb' = [cb EXCEPT ![n] = w.cb]
  /\ sent' = [sent EXCEPT ![n] = w.out]
  /\ hist' = [hist EXCEPT ![n] =
                [leaveRuns |-> IF op = "leaveRoom" THEN BumpStop(hist[n].leaveRuns) ELSE 0,
                 calls |-> IF op \in PublicOps THEN hist[n].calls + 1 ELSE hist[n].calls,
                 ret |-> w.ret,
                 denied |-> CASE op \in {"denied", "initDenied"} -> TRUE
                              [] op \in {"leaveRoom", "dispose",
                                          "retryMicrophoneAccess"} -> FALSE
                              [] OTHER -> hist[n].denied,
                 mic |-> CASE op = "initDenied" -> "denied"
                           [] op = "retryGranted" /\ w.ret = "ok"
                                /\ hist[n].mic = "denied" -> "regained"
                           [] op \in {"leaveRoom", "dispose"} -> "none"
                           [] op = "initialize" /\ hist[n].mic = "regained" -> "none"
                           [] OTHER -> hist[n].mic]]
  /\ UNCHANGED <<active, opts, srv>>

\* this.socket.emit(type, {to, from, ...})
Emit(w, type, to) ==
  [w EXCEPT !.out = Append(@, [type |-> type, to |-> to])]

\* The options the constructor reads a callback from
Callbacks == {"onPeerConnect", "onPeerDisconnect", "onSpeakingChange",
              "onAudioQualityChange", "onError", "onMicrophoneStatus"}

\* if (this.onError) this.onError(...): a callback that was not passed is
\* null and the guarded call is skipped
Called(w, name, arg) ==
  IF name \in w.has THEN [w EXCEPT !.cb = Append(@, [name |-> name, arg |-> arg])]
  ELSE w
OnError(w) == Called(w, "onError", "none")

\* The catch block of an asynchronous handler and the end of the handler:
\* `by` names the public operation awaiting it, if any.
Finish(w, by, peer, c) ==
  IF by = "internal" THEN w
  ELSE [w EXCEPT !.ret = "ok"]
\* A handler without its try block: the rejection reaches the caller
CatchRethrows(w, by, peer, c) == [w EXCEPT !.ret = "threw"]
Catch(w, by, peer, c) == Finish(OnError(w), by, peer, c)

\* Calling an asynchronous method of connection c: queued on the operations
\* chain; on a closed connection the promise is rejected at once.
PcCall(w, c, op, by) ==
  IF w.pcs[c].signalingState = "closed"
  THEN Catch(w, by, w.pcs[c].peer, c)
  ELSE [w EXCEPT !.pcs[c].ops = Append(@, [op |-> op, by |-> by])]

\* _createAndSendOffer up to `await createOffer()`
CreateAndSendOffer(w, peerId, by) ==
  LET c == MapGet(w.mgr.peerConnections, peerId) IN
  IF c = Null THEN Finish(w, by, peerId, Null)
  ELSE PcCall(w, c, "createOffer", by)

\* Whether _createPeerConnection(peerId, true) launches the offer itself
InitiatorOffers(isInitiator) == isInitiator

\* _createPeerConnection(peerId, isInitiator)
CreatePeerConnection(w, peerId, isInitiator) ==
  LET c == Len(w.pcs) + 1
      ls == w.mgr.localStream
      w1 == IF ls = Null THEN OnError(w) ELSE w
      w2 == [w1 EXCEPT !.pcs = Append(@, NewPc(peerId, IF ls = Null THEN <<>> ELSE <<ls>>)),
                       !.mgr.peerConnections = MapSet(@, peerId, c)]
  IN IF InitiatorOffers(isInitiator) THEN CreateAndSendOffer(w2, peerId, "internal") ELSE w2

\* startCall after its `await this.initialize(...)`. dupThrows: whether the
\* platform rejects the second addTrack of a track the connection already
\* sends (InvalidAccessError) or accepts it.
StartCallBody(w, peerId, dupThrows) ==
  IF w.mgr.localStream = Null \/ ~w.mgr.microphoneInitialized
  THEN [OnError(w) EXCEPT !.ret = "threw"]
  ELSE LET w1 == CreatePeerConnection(w, peerId, TRUE)
           c == Len(w1.pcs)
       IN IF dupThrows
          THEN [OnError(w1) EXCEPT !.ret = "threw"]
          ELSE CreateAndSendOffer(
                 [w1 EXCEPT !.pcs[c].senders = Append(@, w.mgr.localStream)],
                 peerId, "startCall")

\* onMicrophoneStatus(createMicrophoneStatus(status))
MicStatus(w, status) ==
  Called(w, "onMicrophoneStatus", status)

\* _handleUserMediaError(error), then `throw new Error(errorMessage)`
HandleUserMediaErrorNoFlag(w, err) ==
  OnError(IF err = "NotAllowedError" THEN MicStatus(w, "denied") ELSE w)
HandleUserMediaError(w, err) ==
  LET w1 == IF err = "NotAllowedError"
            THEN [MicStatus(w, "denied") EXCEPT !.mgr.permissionDenied = TRUE]
            ELSE w
  IN OnError(w1)

\* initialize() fails: the outer catch; `then` is the peer of the startCall
\* awaiting it ("none" for a direct call), whose own catch notifies again.
InitializeThrows(w, err, then) ==
  LET w1 == HandleUserMediaError([w EXCEPT !.mgr.microphoneInitialized = FALSE], err)
  IN IF then = "none" THEN [w1 EXCEPT !.ret = "threw"]
     ELSE [OnError(w1) EXCEPT !.ret = "threw"]

\* initialize() up to the first getUserMedia request
InitializeBody(w, roomId, then, dupThrows) ==
  IF w.mgr.permissionDenied
  THEN \* the call of this.onMicrophoneStatus is not guarded here: a null
       \* callback throws a TypeError into the outer catch
       IF "onMicrophoneStatus" \notin w.has
       THEN InitializeThrows(w, "TypeError", then)
       ELSE LET w1 == MicStatus(w, "denied") IN
            IF then = "none" THEN [w1 EXCEPT !.ret = "ok"]
            ELSE StartCallBody(w1, then, dupThrows)
  ELSE [MicStatus(w, "requesting") EXCEPT
          !.mgr.roomId = roomId,
          !.mgr.microphonePermissionRequested = TRUE,
          !.gum = [count |-> @.count + 1,
                   pending |-> @.pending \cup
                     {[id |-> @.count + 1, stage |-> "basic", then |-> then]}]]

\* "Create speaking detector" and the end of initialize()
InitializeFinish(w, then, dupThrows) ==
  IF w.mgr.localStream = Null
  THEN InitializeThrows(w, "Error", then)
  ELSE LET w1 == [w EXCEPT !.dets = Append(@, [running |-> TRUE, stops |-> 0,
                                               stream |-> w.mgr.localStream]),
                           !.mgr.speakingDetector = Len(w.dets) + 1]
       IN IF then = "none" THEN [w1 EXCEPT !.ret = "ok"]
          ELSE StartCallBody(w1, then, dupThrows)

\* The inner catch of initialize(): the enhanced request failed, the
\* handler warns and continues with the basic stream.
EnhancedFailedThrows(w, err, then, dupThrows) == InitializeThrows(w, err, then)
EnhancedFailed(w, err, then, dupThrows) == InitializeFinish(w, then, dupThrows)

\* track.stop()
StopTrack(ts, t) == [ts EXCEPT ![t] = [live |-> FALSE, stops |-> BumpStop(@.stops)]]

\* initialize(roomId), called by the application
Initialize(n) ==
  /\ CanCall(n)
  /\ mgr[n].permissionDenied \/ gum[n].count < MaxGum
  /\ Commit(n, InitializeBody(World(n), "lobby", "none", FALSE), "initialize")
  /\ UNCHANGED net

\* A getUserMedia request of initialize() resolves with a new stream.
GumResolve(n, g, dupThrows) ==
  /\ n \in active
  /\ g \in gum[n].pending /\ g.stage # "retry"
  /\ g.then # "none" => Len(pcs[n]) < MaxConns
  /\ LET w == World(n)
         t == Len(w.tracks) + 1
         w1 == [w EXCEPT !.tracks = Append(@, [live |-> TRUE, stops |-> 0]),
                         !.gum.pending = @ \ {g}]
     IN IF g.stage = "basic"
        THEN \* this.localStream = stream; 'granted'; the enhanced request
             Commit(n, [MicStatus(w1, "granted") EXCEPT
                          !.mgr.localStream = t,
                          !.mgr.microphoneInitialized = TRUE,
                          !.gum.pending = @ \cup {[g EXCEPT !.stage = "enhanced"]}],
                    "gum")
        ELSE \* replace the basic stream; this.localStream.getTracks() throws
             \* inside the inner try when localStream was reset meanwhile
             LET w2 == IF w1.mgr.localStream = Null THEN w1
                       ELSE [w1 EXCEPT !.tracks = StopTrack(@, w1.mgr.localStream),
                                       !.mgr.localStream = t]
             IN Commit(n, InitializeFinish(w2, g.then, dupThrows), "gum")
  /\ UNCHANGED net

\* A getUserMedia request of initialize() is rejected with error err.
GumReject(n, g, err, dupThrows) ==
  /\ n \in active
  /\ g \in gum[n].pending /\ g.stage # "retry"
  /\ g.then # "none" => Len(pcs[n]) < MaxConns
  /\ LET w1 == [World(n) EXCEPT !.gum.pending = @ \ {g}]
     IN IF g.stage = "basic"
        THEN Commit(n, InitializeThrows(w1, err, g.then),
                    IF err = "NotAllowedError" THEN "initDenied" ELSE "gum")
        ELSE Commit(n, EnhancedFailed(w1, err, g.then, dupThrows), "gum")
  /\ UNCHANGED net

\* The catch block of retryMicrophoneAccess(): a status by kind of error,
\* then onError, neither call guarded; it returns false unless a null
\* callback throws out of the catch block.
RetryStatus(err) ==
  CASE err = "NotAllowedError" -> "denied"
    [] err \in {"NotFoundError", "NotReadableError"} -> "unavailable"
    [] OTHER -> "error"
RetryCatch(w, err) ==
  LET w1 == IF err = "NotAllowedError" THEN [w EXCEPT !.mgr.permissionDenied = TRUE]
            ELSE w
  IN IF "onMicrophoneStatus" \notin w.has THEN [w1 EXCEPT !.ret = "threw"]
     ELSE IF "onError" \notin w.has
          THEN [MicStatus(w1, RetryStatus(err)) EXCEPT !.ret = "threw"]
          ELSE [OnError(MicStatus(w1, RetryStatus(err))) EXCEPT !.ret = "ok"]

\* retryMicrophoneAccess() up to `await getUserMedia(...)`
RetryBody(w) ==
  LET w1 == [w EXCEPT !.mgr.permissionDenied = FALSE] IN
  IF "onMicrophoneStatus" \notin w.has THEN RetryCatch(w1, "TypeError")
  ELSE [MicStatus(w1, "requesting") EXCEPT
          !.gum = [count |-> @.count + 1,
                   pending |-> @.pending \cup
                     {[id |-> @.count + 1, stage |-> "retry", then |-> "none"]}]]

\* retryMicrophoneAccess() from the capture it was granted to its end: the
\* new stream replaces localStream, the old detector is stopped and a new
\* one started, and the room is joined again.
RetryResolveBody(w, g) ==
  LET t == Len(w.tracks) + 1
      d == w.mgr.speakingDetector
      w1 == [w EXCEPT !.tracks = Append(@, [live |-> TRUE, stops |-> 0]),
                      !.gum.pending = @ \ {g},
                      !.mgr.localStream = t]
  IN IF "onMicrophoneStatus" \notin w.has THEN RetryCatch(w1, "TypeError")
     ELSE LET w2 == MicStatus(w1, "granted")
              w3 == IF d = Null THEN w2
                    ELSE [w2 EXCEPT !.dets[d] = [@ EXCEPT !.running = FALSE,
                                                          !.stops = BumpStop(@)]]
              w4 == [w3 EXCEPT !.dets = Append(@, [running |-> TRUE, stops |-> 0,
                                                   stream |-> t]),
                               !.mgr.speakingDetector = Len(w3.dets) + 1,
                               !.ret = "ok"]
          IN IF w.mgr.roomId = "null" THEN w4 ELSE Emit(w4, "join", "server")

\* retryMicrophoneAccess(), called by the application
RetryMicrophoneAccess(n) ==
  /\ CanCall(n)
  /\ gum[n].count < MaxGum
  /\ Commit(n, RetryBody(World(n)), "retryMicrophoneAccess")
  /\ UNCHANGED net

\* The getUserMedia request of retryMicrophoneAccess() resolves
RetryResolve(n, g) ==
  /\ n \in active
  /\ g \in gum[n].pending /\ g.stage = "retry"
  /\ Commit(n, RetryResolveBody(World(n), g), "retryGranted")
  /\ UNCHANGED net

\* The getUserMedia request of retryMicrophoneAccess() is rejected
RetryReject(n, g, err) ==
  /\ n \in active
  /\ g \in gum[n].pending /\ g.stage = "retry"
  /\ Commit(n, RetryCatch([World(n) EXCEPT !.gum.pending = @ \ {g}], err),
            IF err = "NotAllowedError" THEN "denied" ELSE "gum")
  /\ UNCHANGED net

\* startCall(peerId)
StartCall(n, peerId, dupThrows) ==
  /\ CanCall(n)
  /\ peerId \in Others(n)
  /\ Len(pcs[n]) < MaxConns
  /\ mgr[n].microphonePermissionRequested \/ gum[n].count < MaxGum
  /\ LET w == World(n)
         w1 == IF ~w.mgr.microphonePermissionRequested
               THEN InitializeBody(w, IF w.mgr.roomId = "null" THEN "default"
                                      ELSE w.mgr.roomId, peerId, dupThrows)
               ELSE StartCallBody(w, peerId, dupThrows)
     IN Commit(n, w1, "startCall")
  /\ UNCHANGED net

\* _handleOffer up to `await setRemoteDescription(offer)`
HandleOfferBody(w, peerId) ==
  LET w1 == IF MapHas(w.mgr.peerConnections, peerId) THEN w
            ELSE CreatePeerConnection(w, peerId, FALSE)
  IN PcCall(w1, MapGet(w1.mgr.peerConnections, peerId), "setRemoteOffer",
            "acceptIncomingCall")

\* What _handleAnswer does with the answer when the peer has an entry
AnswerOpNone(w, c) == Finish(w, "handleAnswer", w.pcs[c].peer, c)
AnswerOp(w, c) == PcCall(w, c, "setRemoteAnswer", "handleAnswer")

\* _handleAnswer up to `await setRemoteDescription(answer)`
HandleAnswerBody(w, peerId) ==
  LET c == MapGet(w.mgr.peerConnections, peerId) IN
  IF c = Null THEN Finish(w, "handleAnswer", peerId, Null)
  ELSE AnswerOp(w, c)

\* _handleIceCandidate up to `await addIceCandidate(candidate)`
HandleIceCandidateBodyCreates(w, peerId) ==
  LET w1 == IF MapHas(w.mgr.peerConnections, peerId) THEN w
            ELSE CreatePeerConnection(w, peerId, FALSE)
  IN PcCall(w1, MapGet(w1.mgr.peerConnections, peerId), "addIce", "addIceCandidate")
HandleIceCandidateBody(w, peerId) ==
  LET c == MapGet(w.mgr.peerConnections, peerId) IN
  IF c = Null THEN Finish(w, "addIceCandidate", peerId, Null)
  ELSE PcCall(w, c, "addIce", "addIceCandidate")

\* Room for one more operation on the peer's connection (model bound)
QueueRoom(n, peerId) ==
  LET c == MapGet(mgr[n].peerConnections, peerId) IN
  IF c = Null THEN Len(pcs[n]) < MaxConns ELSE Len(pcs[n][c].ops) < MaxQueue

\* acceptIncomingCall(peerId, offer), handleAnswer(peerId, answer) and
\* addIceCandidate(peerId, candidate), called by the application with a
\* message of any peer
AcceptIncomingCall(n, peerId) ==
  /\ CanCall(n) /\ peerId \in Others(n) /\ peerId \notin active
  /\ QueueRoom(n, peerId)
  /\ Commit(n, HandleOfferBody(World(n), peerId), "acceptIncomingCall")
  /\ UNCHANGED net

HandleAnswer(n, peerId) ==
  /\ CanCall(n) /\ peerId \in Others(n) /\ peerId \notin active
  /\ MapHas(mgr[n].peerConnections, peerId) => QueueRoom(n, peerId)
  /\ Commit(n, HandleAnswerBody(World(n), peerId), "handleAnswer")
  /\ UNCHANGED net

AddIceCandidate(n, peerId) ==
  /\ CanCall(n) /\ peerId \in Others(n) /\ peerId \notin active
  /\ MapHas(mgr[n].peerConnections, peerId) => QueueRoom(n, peerId)
  /\ Commit(n, HandleIceCandidateBody(World(n), peerId), "addIceCandidate")
  /\ UNCHANGED net

\* A signaling message relayed from an active user reaches user n, whose
\* application passes it to the manager at once.
Receive(n, from) ==
  /\ n \in active /\ from \in active
  /\ net[<<from, n>>] # <<>>
  /\ LET type == Head(net[<<from, n>>])
         w == World(n)
         w1 == CASE type = "offer" -> HandleOfferBody(w, from)
                 [] type = "answer" -> HandleAnswerBody(w, from)
                 [] OTHER -> HandleIceCandidateBody(w, from)
     IN /\ Commit(n, w1, type)
        /\ net' = [Deliver(n, w1.out) EXCEPT ![<<from, n>>] = Tail(net[<<from, n>>])]

\* pc.close()
ClosePc(pc) ==
  [pc EXCEPT !.signalingState = "closed", !.connectionState = "closed",
             !.closes = BumpStop(@)]

\* _cleanupPeerConnection(peerId) for every peerId of the set P
CleanupPeerConnections(w, P) ==
  LET conns == {MapGet(w.mgr.peerConnections, p) : p \in P} \ {Null}
      monIds == {MapGet(w.mgr.audioQualityMonitors, p) : p \in P} \ {Null}
  IN [w EXCEPT
        !.pcs = [c \in DOMAIN w.pcs |->
                   IF c \in conns THEN [ClosePc(w.pcs[c]) EXCEPT !.handlers = FALSE]
                   ELSE w.pcs[c]],
        !.mons = [i \in DOMAIN w.mons |->
                    IF i \in monIds
                    THEN [w.mons[i] EXCEPT !.running = FALSE, !.stops = BumpStop(@)]
                    ELSE w.mons[i]],
        !.mgr.peerConnections = MapDelete(@, P),
        !.mgr.audioQualityMonitors = MapDelete(@, P)]

\* `this.localStream = null` of leaveRoom
LeaveRoomStreamKept(ls) == ls
LeaveRoomStream(ls) == Null

\* `this.peerConnections.clear()` of leaveRoom
LeaveRoomEntries(map) == {}

\* leaveRoom()
LeaveRoomBody(w) ==
  LET w1 == CleanupPeerConnections(w, MapKeys(w.mgr.peerConnections))
      ls == w1.mgr.localStream
      w2 == IF ls = Null THEN w1 ELSE [w1 EXCEPT !.tracks = StopTrack(@, ls)]
      d == w2.mgr.speakingDetector
      w3 == IF d = Null THEN w2
            ELSE [w2 EXCEPT !.dets[d] = [@ EXCEPT !.running = FALSE,
                                                  !.stops = BumpStop(@)]]
  IN [w3 EXCEPT !.mgr = [roomId |-> "null",
                         localStream |-> LeaveRoomStream(ls),
                         peerConnections |-> LeaveRoomEntries(w1.mgr.peerConnections),
                         audioQualityMonitors |-> {},
                         speakingDetector |-> Null,
                         microphoneInitialized |-> FALSE,
                         microphonePermissionRequested |-> FALSE,
                         permissionDenied |-> FALSE,
                         socketBound |-> @.socketBound]]

LeaveRoom(n) ==
  /\ CanCall(n)
  /\ Commit(n, LeaveRoomBody(World(n)), "leaveRoom")
  /\ UNCHANGED net

\* dispose(): leaveRoom(), then the socket.off calls
Dispose(n) ==
  /\ CanCall(n)
  /\ Commit(n, [LeaveRoomBody(World(n)) EXCEPT !.mgr.socketBound = FALSE], "dispose")
  /\ UNCHANGED net

\* The cleanup steps of leaveRoom() that call into the platform or into
\* another object: RTCPeerConnection.close(), the quality monitor's stop(),
\* MediaStreamTrack.stop() and the speaking detector's stop()
CleanupSteps == {"close", "monitor", "track", "detector"}

\* The steps the leaveRoom() of world w runs, with the peer whose entry
\* they clean up ("none" for the local stream and the detector)
StepsRun(w) ==
  {[step |-> "close", peer |-> q] : q \in MapKeys(w.mgr.peerConnections)}
  \cup {[step |-> "monitor", peer |-> q] :
          q \in MapKeys(w.mgr.peerConnections) \cap MapKeys(w.mgr.audioQualityMonitors)}
  \cup (IF w.mgr.localStream = Null THEN {} ELSE {[step |-> "track", peer |-> "none"]})
  \cup (IF w.mgr.speakingDetector = Null THEN {}
        ELSE {[step |-> "detector", peer |-> "none"]})

\* _cleanupPeerConnection(q) in which `step` throws: the statements before
\* it have run, the catch block logs, the statements after it are skipped
CleanupThrows(w, q, step) ==
  LET c == MapGet(w.mgr.peerConnections, q)
  IN IF step = "close" THEN [w EXCEPT !.pcs[c].handlers = FALSE]
     ELSE [w EXCEPT !.pcs[c] = [ClosePc(@) EXCEPT !.handlers = FALSE],
                    !.mgr.peerConnections = MapDelete(@, {q})]

\* leaveRoom() in which the step f throws
LeaveRoomFailing(w, f) ==
  LET keys == MapKeys(w.mgr.peerConnections)
      w1 == IF f.step \in {"close", "monitor"}
            THEN CleanupPeerConnections(CleanupThrows(w, f.peer, f.step),
                                        keys \ {f.peer})
            ELSE CleanupPeerConnections(w, keys)
      ls == w1.mgr.localStream
      w2 == IF ls = Null THEN w1 ELSE [w1 EXCEPT !.tracks = StopTrack(@, ls)]
      d == w2.mgr.speakingDetector
      w3 == IF d = Null \/ f.step = "detector" THEN w2
            ELSE [w2 EXCEPT !.dets[d] = [@ EXCEPT !.running = FALSE,
                                                  !.stops = BumpStop(@)]]
  IN IF f.step = "track"
     THEN \* the forEach callback is not in a try block: leaveRoom() throws
          [w1 EXCEPT !.ret = "threw"]
     ELSE [w3 EXCEPT !.mgr = [roomId |-> "null",
                              localStream |-> LeaveRoomStream(ls),
                              peerConnections |-> LeaveRoomEntries(w1.mgr.peerConnections),
                              audioQualityMonitors |-> {},
                              speakingDetector |-> Null,
                              microphoneInitialized |-> FALSE,
                              microphonePermissionRequested |-> FALSE,
                              permissionDenied |-> FALSE,
                              socketBound |-> @.socketBound]]

LeaveRoomFails(n, f) ==
  /\ CanCall(n)
  /\ f \in StepsRun(World(n))
  /\ Commit(n, LeaveRoomFailing(World(n), f), "leaveRoom")
  /\ UNCHANGED net

\* dispose() in which the step f of its leaveRoom() throws: the socket.off
\* calls follow only when leaveRoom() returned
DisposeFails(n, f) ==
  /\ CanCall(n)
  /\ f \in StepsRun(World(n))
  /\ LET w == LeaveRoomFailing(World(n), f)
     IN Commit(n, IF w.ret = "threw" THEN w ELSE [w EXCEPT !.mgr.socketBound = FALSE],
               "dispose")
  /\ UNCHANGED net

\* The ontrack handler, fired when a remote description first brings the
\* peer's audio track: a new AudioQualityMonitor is started and stored under
\* the peer's id, and onPeerConnect is called.
OnTrack(w, c) ==
  IF ~w.pcs[c].handlers \/ w.pcs[c].tracked THEN w
  ELSE Called([w EXCEPT
                 !.pcs[c].tracked = TRUE,
                 !.mons = Append(@, [peer |-> w.pcs[c].peer, conn |-> c,
                                     running |-> TRUE, stops |-> 0]),
                 !.mgr.audioQualityMonitors =
                    MapSet(@, w.pcs[c].peer, Len(w.mons) + 1)],
              "onPeerConnect", w.pcs[c].peer)

\* Whether the connection accepts the candidate passed to addIceCandidate:
\* without a remote description the call is rejected (InvalidStateError).
IceValidAlways(pc) == TRUE
IceValid(pc) == pc.remoteDesc

\* Whether the signaling state machine accepts operation op
OpValid(pc, op) ==
  CASE op = "createOffer" -> pc.signalingState # "closed"
    [] op = "setLocalOffer" -> pc.signalingState \in {"stable", "have-local-offer"}
    [] op = "setRemoteOffer" ->
         pc.signalingState \in {"stable", "have-remote-offer", "have-local-offer"}
    [] op = "createAnswer" -> pc.signalingState = "have-remote-offer"
    [] op = "setLocalAnswer" -> pc.signalingState = "have-remote-offer"
    [] op = "setRemoteAnswer" -> pc.signalingState = "have-local-offer"
    [] OTHER -> IceValid(pc)

\* Operations whose argument comes from the remote peer
RemoteOps == {"setRemoteOffer", "setRemoteAnswer", "addIce"}

\* setLocalDescription succeeded: ICE gathering starts once
StartGather(pc) == IF pc.gather = Null THEN MaxCandidates ELSE pc.gather

\* The operation at the head of connection c's chain succeeds, and the
\* handler awaiting it runs on to its next await or to its end.
OpSucceeds(w, c, h) ==
  LET pc == w.pcs[c]
      rest == Tail(pc.ops)
      Then(op) == [w EXCEPT !.pcs[c].ops = Append(rest, [op |-> op, by |-> h.by])]
  IN CASE h.op = "createOffer" -> Then("setLocalOffer")
       [] h.op = "setLocalOffer" ->
            Finish(Emit([w EXCEPT !.pcs[c] = [pc EXCEPT
                           !.ops = rest, !.signalingState = "have-local-offer",
                           !.localDesc = TRUE, !.gather = StartGather(pc)]],
                        "offer", pc.peer),
                   h.by, pc.peer, c)
       [] h.op = "setRemoteOffer" ->
            LET w1 == [w EXCEPT !.pcs[c] = [pc EXCEPT
                         !.ops = Append(rest, [op |-> "createAnswer", by |-> h.by]),
                         !.signalingState = "have-remote-offer",
                         !.localDesc = IF pc.signalingState = "have-local-offer"
                                       THEN FALSE ELSE @,
                         !.remoteDesc = TRUE]]
            IN OnTrack(w1, c)
       [] h.op = "createAnswer" -> Then("setLocalAnswer")
       [] h.op = "setLocalAnswer" ->
            Finish(Emit([w EXCEPT !.pcs[c] = [pc EXCEPT
                           !.ops = rest, !.signalingState = "stable",
                           !.localDesc = TRUE, !.gather = StartGather(pc)]],
                        "answer", pc.peer),
                   h.by, pc.peer, c)
       [] h.op = "setRemoteAnswer" ->
            Finish(OnTrack([w EXCEPT !.pcs[c] = [pc EXCEPT
                              !.ops = rest, !.signalingState = "stable",
                              !.remoteDesc = TRUE]], c),
                   h.by, pc.peer, c)
       [] OTHER ->
            Finish([w EXCEPT !.pcs[c] = [pc EXCEPT !.ops = rest,
                                                   !.candidates = Bump(@)]],
                   h.by, pc.peer, c)

\* The operation at the head of connection c's chain completes. outcome:
\*   "run"  - the state machine decides (InvalidStateError when not valid)
\*   "fail" - the platform rejects it: remote data it cannot apply, or a
\*            connection closed meanwhile
\*   "drop" - on a connection closed meanwhile, the promise never settles
PcOpStep(n, c, outcome) ==
  /\ n \in active
  /\ c \in DOMAIN pcs[n]
  /\ pcs[n][c].ops # <<>>
  /\ LET w == World(n)
         pc == w.pcs[c]
         h == Head(pc.ops)
         failed == Catch([w EXCEPT !.pcs[c].ops = Tail(pc.ops)], h.by, pc.peer, c)
     IN /\ IF pc.signalingState = "closed" THEN outcome \in {"fail", "drop"}
           ELSE outcome = "run" \/ (outcome = "fail" /\ h.op \in RemoteOps)
        /\ LET w1 == CASE outcome = "drop" -> [w EXCEPT !.pcs[c].ops = Tail(pc.ops)]
                       [] outcome = "fail" -> failed
                       [] OTHER -> IF OpValid(pc, h.op) THEN OpSucceeds(w, c, h)
                                   ELSE failed
           IN /\ Commit(n, w1, "pc")
              /\ net' = Deliver(n, w1.out)

\* The icecandidate event of connection c: the handler emits the candidate.
IceCandidateEvent(n, c) ==
  /\ n \in active
  /\ c \in DOMAIN pcs[n]
  /\ pcs[n][c].signalingState # "closed"
  /\ pcs[n][c].gather # Null /\ pcs[n][c].gather > 0
  /\ LET w == [World(n) EXCEPT !.pcs[c].gather = @ - 1]
         w1 == IF w.pcs[c].handlers THEN Emit(w, "iceCandidate", w.pcs[c].peer) ELSE w
     IN /\ Commit(n, w1, "icecandidate")
        /\ net' = Deliver(n, w1.out)

\* The transport of the connection that answers connection c of user n:
\* environment for a peer that is no active user.
RemoteReady(n, c) ==
  LET p == pcs[n][c].peer IN
  p \in active =>
    \E d \in DOMAIN pcs[p] :
      /\ pcs[p][d].peer = n /\ pcs[p][d].signalingState = "stable"
      /\ pcs[p][d].localDesc /\ pcs[p][d].remoteDesc /\ pcs[p][d].candidates > 0

\* What the onconnectionstatechange handler does for a state
StateCleansUp(state) == state \in {"disconnected", "failed", "closed"}

\* The connectionstatechange event of connection c, with its handler
ConnectionStateChange(n, c, state) ==
  /\ n \in active
  /\ c \in DOMAIN pcs[n]
  /\ pcs[n][c].signalingState # "closed"
  /\ pcs[n][c].localDesc /\ pcs[n][c].remoteDesc
  /\ pcs[n][c].connectionState # state
  /\ state = "connected" =>
       /\ pcs[n][c].connectionState # "failed"
       /\ pcs[n][c].signalingState = "stable"
       /\ pcs[n][c].candidates > 0
       /\ RemoteReady(n, c)
  /\ LET w == [World(n) EXCEPT !.pcs[c].connectionState = state]
         w1 == IF w.pcs[c].handlers /\ StateCleansUp(state)
               THEN CleanupPeerConnections(
                      Called(w, "onPeerDisconnect", w.pcs[c].peer), {w.pcs[c].peer})
               ELSE w
     IN Commit(n, w1, "connectionstatechange")
  /\ UNCHANGED net

(***************************************************************************)
(* Signaling server (server/src/index.js)                                  *)
(*                                                                         *)
(* A socket's id names the user; activeUsers holds the registered ones.    *)
(* emitted is what the last handler sent: to one socket, or to "all".      *)
(***************************************************************************)
Sockets == Users
SigEvents == {"offer", "answer", "iceCandidate"}
Bodies == {"sdp1", "sdp2"}
Undefined == "undefined"

SrvInit == [activeUsers |-> {}, emitted |-> <<>>]

\* The property of the payload that carries the description or candidate
BodyField(event) == IF event = "iceCandidate" THEN "candidate" ELSE event

\* data.name of a JavaScript object: undefined for a property it lacks
Field(data, name) == IF name \in DOMAIN data THEN data[name] ELSE Undefined

\* The object the manager passes to socket.emit(event, {to, from, ...})
ManagerPayload(from, event, to, body) ==
  [f \in {"to", "from", BodyField(event)} |->
     CASE f = "to" -> to [] f = "from" -> from [] OTHER -> body]

\* An object with the properties the server's handlers destructure
TargetPayload(event, target, body) ==
  [f \in {"target", BodyField(event)} |-> IF f = "target" THEN target ELSE body]

\* An object that also names a sender of the client's choosing
NamedSenderPayload(event, from, target, body) ==
  [f \in {"target", "from", BodyField(event)} |->
     CASE f = "target" -> target [] f = "from" -> from [] OTHER -> body]

SrvEmit(to, event, data) == [to |-> to, event |-> event, data |-> data]
UserList(users) == [f \in {"users"} |-> users]
InvalidUser == [f \in {"message"} |-> "Invalid user"]

\* socket.on('register'): ok says the username is a non-empty string that
\* no registered user has
SrvRegister(s, ok) ==
  /\ srv' = IF ok
            THEN [activeUsers |-> srv.activeUsers \cup {s},
                  emitted |-> <<SrvEmit(s, "registered", [f \in {"username"} |-> s]),
                                SrvEmit("all", "userList",
                                        UserList(srv.activeUsers \cup {s}))>>]
            ELSE [srv EXCEPT !.emitted =
                    <<SrvEmit(s, "error", [f \in {"message"} |-> "Invalid username"])>>]
  /\ UNCHANGED <<active, opts, mgr, pcs, tracks, dets, mons, gum, cb, sent, net, hist>>

\* socket.on('disconnect')
SrvDisconnect(s) ==
  /\ srv' = [activeUsers |-> srv.activeUsers \ {s},
             emitted |-> IF s \in srv.activeUsers
                         THEN <<SrvEmit("all", "userList",
                                        UserList(srv.activeUsers \ {s}))>>
                         ELSE <<>>]
  /\ UNCHANGED <<active, opts, mgr, pcs, tracks, dets, mons, gum, cb, sent, net, hist>>

\* A relay that forwards the `from` the client wrote
RelayTrustsFrom(users, s, event, data) ==
  LET target == Field(data, "target")
  IN IF s \notin users \/ target \notin users
     THEN <<SrvEmit(s, "error", InvalidUser)>>
     ELSE <<SrvEmit(target, event,
                    [f \in {"from", BodyField(event)} |->
                       IF f = "from" THEN Field(data, "from")
                       ELSE Field(data, BodyField(event))])>>

\* What socket.on(event, ({ target, <body> }) => ...) of socket s emits for
\* the received object data: io.to(target) reaches the socket of that id
Relay(users, s, event, data) ==
  LET target == Field(data, "target")
      body == Field(data, BodyField(event))
  IN IF s \notin users \/ target \notin users
     THEN <<SrvEmit(s, "error", InvalidUser)>>
     ELSE <<SrvEmit(target, event,
                    [f \in {"from", BodyField(event)} |->
                       IF f = "from" THEN s ELSE body])>>

\* The 'offer', 'answer' and 'iceCandidate' handlers
SrvSignal(s, event, data) ==
  /\ srv' = [srv EXCEPT !.emitted = Relay(srv.activeUsers, s, event, data)]
  /\ UNCHANGED <<active, opts, mgr, pcs, tracks, dets, mons, gum, cb, sent, net, hist>>

(***************************************************************************)
(* Initial state of the managers                                           *)
(***************************************************************************)
Channels == {<<a, b>> : a \in Users, b \in Users}

MFields0(act) ==
  /\ active = act
  /\ mgr = [n \in Users |-> MgrInit]
  /\ pcs = [n \in Users |-> <<>>]
  /\ tracks = [n \in Users |-> <<>>]
  /\ dets = [n \in Users |-> <<>>]
  /\ mons = [n \in Users |-> <<>>]
  /\ gum = [n \in Users |-> [count |-> 0, pending |-> {}]]
  /\ cb = [n \in Users |-> <<>>]
  /\ sent = [n \in Users |-> <<>>]
  /\ net = [ch \in Channels |-> <<>>]
  /\ srv = SrvInit
  /\ hist = [n \in Users |-> [leaveRuns |-> 0, calls |-> 0, ret |-> NoRet,
                              denied |-> FALSE, mic |-> "none"]]
MInit0(act) == MFields0(act) /\ opts = [n \in Users |-> Callbacks]

(***************************************************************************)
(* WebRTCManager, video version, and its screen sharing                    *)
(*                                                                         *)
(* A connection is the sequence of its RTCRtpSenders, each with the kind   *)
(* and the track it carries (Null after removeTrack). peerConnections is   *)
(* the Map in insertion order. A handler runs in one step from the         *)
(* completion of the capture it awaits; a renegotiation it awaits may      *)
(* fail, which ends the handler in its catch block.                        *)
(***************************************************************************)
VPeers == {"B", "C"}
MaxTracks == 4      \* media tracks the manager captures in a run

\* The constructor's fields; capturing counts the startScreenSharing calls
\* awaiting getDisplayMedia
VmInit ==
  [localStream |-> Null, localVideoStream |-> Null, localScreenStream |-> Null,
   isScreenSharing |-> FALSE, peerConnections |-> <<>>, capturing |-> 0,
   roomId |-> "null", listening |-> TRUE, unheard |-> 0, answered |-> {}]

NoShare == [phase |-> "none", before |-> <<>>]

\* The boolean a screen-sharing operation returns, as the history keeps it
NoneSettled == "none"
Returned(b) == IF b THEN "true" ELSE "false"

VInit0 ==
  /\ vm = VmInit
  /\ vtracks = <<>>
  /\ ss = NoShare
  /\ vcb = <<>>
  /\ vret = NoneSettled

FirstIdx(S) == CHOOSE i \in S : \A j \in S : i <= j

\* senders.find(sender => sender.track && sender.track.kind === 'video'):
\* the index of the sender, Null if there is none
VideoSender(senders) ==
  LET found == {i \in DOMAIN senders :
                  senders[i].track # Null /\ senders[i].kind = "video"}
  IN IF found = {} THEN Null ELSE FirstIdx(found)

\* peerConnection.addTrack / sender.replaceTrack / peerConnection.removeTrack
AddTrack(senders, kind, t) == Append(senders, [kind |-> kind, track |-> t])
ReplaceTrack(senders, i, t) == [senders EXCEPT ![i].track = t]
RemoveTrack(senders, i) == [senders EXCEPT ![i].track = Null]

\* The screen track goes onto the video sender, or onto a new sender
ScreenOnto(senders, t) ==
  IF VideoSender(senders) # Null THEN ReplaceTrack(senders, VideoSender(senders), t)
  ELSE AddTrack(senders, "video", t)

\* stopScreenSharing's "Restore video tracks": what it does to the senders
\* of one connection when the camera stream exists
RestoreCamera(senders, cam) ==
  IF VideoSender(senders) # Null THEN ReplaceTrack(senders, VideoSender(senders), cam)
  ELSE senders

\* Position of peerId's entry in the Map, Null if it has none
VEntry(map, peerId) ==
  LET found == {i \in DOMAIN map : map[i].peer = peerId}
  IN IF found = {} THEN Null ELSE FirstIdx(found)

\* A loop over peerConnections.entries() whose iteration at position
\* failAt throws when that position is one of `throwing`: the positions the
\* loop visits (the throwing iteration is visited, the later ones are not)
LoopThrows(failAt, throwing) == failAt \in throwing
Visited(map, failAt, throwing) ==
  IF LoopThrows(failAt, throwing) THEN {i \in DOMAIN map : i <= failAt}
  ELSE DOMAIN map

NewTrack(kind) == [kind |-> kind, live |-> TRUE, listening |-> FALSE]
VStopTrack(ts, t) == IF t = Null THEN ts ELSE [ts EXCEPT ![t].live = FALSE]
CanCapture == Len(vtracks) + vm.capturing < MaxTracks

\* initialize(roomId) with the getUserMedia it awaits
VInitialize(ok) ==
  /\ vcb' = <<>> /\ vret' = NoneSettled
  /\ CanCapture
  /\ IF ok
     THEN /\ vtracks' = Append(vtracks, NewTrack("audio"))
          /\ vm' = [vm EXCEPT !.roomId = "room", !.localStream = Len(vtracks) + 1]
     ELSE /\ vm' = [vm EXCEPT !.roomId = "room"]
          /\ UNCHANGED vtracks
  /\ ss' = NoShare

\* socket.emit of an event by the server's side: with no listener registered
\* for it nothing runs
Unheard ==
  /\ ~vm.listening /\ vm.unheard < CapCount
  /\ vm' = [vm EXCEPT !.unheard = @ + 1]
  /\ vcb' = <<>> /\ vret' = NoneSettled /\ ss' = NoShare
  /\ UNCHANGED vtracks

\* the 'user-connected' listener: _createPeerConnection(userId)
VCreatePeerConnection(peerId) ==
  LET a == IF vm.localStream = Null THEN <<>>
           ELSE AddTrack(<<>>, "audio", vm.localStream)
      v == IF vm.localVideoStream = Null THEN a
           ELSE AddTrack(a, "video", vm.localVideoStream)
      senders == IF vm.isScreenSharing /\ vm.localScreenStream # Null
                 THEN ScreenOnto(v, vm.localScreenStream) ELSE v
      e == VEntry(vm.peerConnections, peerId)
      pc == [peer |-> peerId, senders |-> senders, state |-> "new"]
  IN IF e = Null THEN Append(vm.peerConnections, pc)
     ELSE [vm.peerConnections EXCEPT ![e] = pc]

VUserConnected(peerId) ==
  /\ peerId \in VPeers
  /\ IF ~vm.listening THEN Unheard
     ELSE /\ vcb' = <<>> /\ vret' = NoneSettled
          /\ vm' = [vm EXCEPT !.peerConnections = VCreatePeerConnection(peerId)]
          /\ ss' = NoShare
          /\ UNCHANGED vtracks

\* the 'receive-signal' listener for an offer: the entry is created when
\* missing, the offer applied and the answer emitted; applies: whether the
\* platform accepts the offer (the catch only logs).
VReceiveOffer(peerId, applies) ==
  /\ peerId \in VPeers
  /\ IF ~vm.listening THEN Unheard
     ELSE /\ vcb' = <<>> /\ vret' = NoneSettled
          /\ vm' = [vm EXCEPT
                      !.peerConnections =
                         IF VEntry(vm.peerConnections, peerId) = Null
                         THEN VCreatePeerConnection(peerId) ELSE @,
                      !.answered = IF applies THEN @ \cup {peerId} ELSE @]
          /\ ss' = NoShare
          /\ UNCHANGED vtracks

\* the 'user-disconnected' listener: _closePeerConnection(userId)
VUserDisconnected(peerId) ==
  IF ~vm.listening THEN Unheard
  ELSE
  /\ VEntry(vm.peerConnections, peerId) # Null
  /\ vcb' = <<[name |-> "onRemoteStreamRemoved", arg |-> peerId],
              [name |-> "onPeerDisconnected", arg |-> peerId]>>
  /\ vm' = [vm EXCEPT !.peerConnections = SelectSeq(@, LAMBDA pc : pc.peer # peerId)]
  /\ ss' = NoShare /\ vret' = NoneSettled
  /\ UNCHANGED vtracks

\* The positions whose iteration of startScreenSharing's loop renegotiates:
\* the connections without a video sender
Renegotiating(map) == {i \in DOMAIN map : VideoSender(map[i].senders) = Null}

\* enableVideo() with the getUserMedia it awaits; every iteration of its
\* loop renegotiates
VEnableVideo(ok, failAt) ==
  /\ vcb' = <<>> /\ vret' = NoneSettled
  /\ CanCapture
  /\ IF ok
     THEN LET t == Len(vtracks) + 1
              map == vm.peerConnections
              seen == Visited(map, failAt, DOMAIN map)
          IN /\ vtracks' = Append(vtracks, NewTrack("video"))
             /\ vm' = [vm EXCEPT
                         !.localVideoStream = t,
                         !.peerConnections =
                            [i \in DOMAIN map |->
                               IF i \in seen
                               THEN [map[i] EXCEPT !.senders = AddTrack(@, "video", t)]
                               ELSE map[i]]]
     ELSE UNCHANGED <<vm, vtracks>>
  /\ ss' = NoShare

\* disableVideo()
VDisableVideo ==
  /\ vcb' = <<>> /\ vret' = NoneSettled
  /\ IF vm.localVideoStream = Null THEN UNCHANGED <<vm, vtracks>>
     ELSE LET map == vm.peerConnections
              Remove(senders) ==
                IF VideoSender(senders) = Null THEN senders
                ELSE RemoveTrack(senders, VideoSender(senders))
          IN /\ vtracks' = VStopTrack(vtracks, vm.localVideoStream)
             /\ vm' = [vm EXCEPT
                         !.localVideoStream = Null,
                         !.peerConnections =
                            [i \in DOMAIN map |->
                               [map[i] EXCEPT !.senders = Remove(@)]]]
  /\ ss' = NoShare

\* What a connection sends: the senders that carry a track
Outgoing(senders) ==
  {[kind |-> senders[i].kind, track |-> senders[i].track] :
     i \in {j \in DOMAIN senders : senders[j].track # Null}}
SenderSets(map) ==
  [i \in DOMAIN map |-> [peer |-> map[i].peer, out |-> Outgoing(map[i].senders)]]

\* startScreenSharing() up to `await getDisplayMedia(...)`
VStartScreenSharing ==
  /\ vcb' = <<>>
  /\ vret' = IF vm.isScreenSharing THEN Returned(TRUE) ELSE NoneSettled
  /\ CanCapture
  /\ IF vm.isScreenSharing
     THEN UNCHANGED vm /\ ss' = NoShare
     ELSE /\ vm' = [vm EXCEPT !.capturing = @ + 1]
          /\ ss' = [phase |-> "capturing", before |-> SenderSets(vm.peerConnections)]
  /\ UNCHANGED vtracks

\* onScreenSharingChange(sharing, stream)
ScreenSharingChange(sharing) == [name |-> "onScreenSharingChange", arg |-> sharing]

\* getDisplayMedia resolves and startScreenSharing() runs to its end;
\* it returns true unless a renegotiation throws, and only then has it
\* added the 'ended' listener to the screen track and called
\* onScreenSharingChange(true). ended: the user stops the capture in the
\* browser while the loop awaits, before the listener exists.
VDisplayResolve(failAt, ended) ==
  /\ vm.capturing > 0
  /\ ended => vm.peerConnections # <<>>
  /\ LET t == Len(vtracks) + 1
         map == vm.peerConnections
         seen == Visited(map, failAt, Renegotiating(map))
         completes == ~LoopThrows(failAt, Renegotiating(map))
     IN /\ vcb' = IF completes THEN <<ScreenSharingChange(TRUE)>> ELSE <<>>
        /\ vret' = Returned(completes)
        /\ vtracks' = Append(vtracks, [NewTrack("video") EXCEPT
                                         !.live = ~ended, !.listening = completes])
        /\ vm' = [vm EXCEPT
                    !.capturing = @ - 1,
                    !.localScreenStream = t,
                    !.isScreenSharing = TRUE,
                    !.peerConnections =
                       [i \in DOMAIN map |->
                          IF i \in seen
                          THEN [map[i] EXCEPT !.senders = ScreenOnto(@, t)]
                          ELSE map[i]]]
        /\ ss' = IF ss.phase = "capturing" /\ ~LoopThrows(failAt, Renegotiating(map))
                 THEN [ss EXCEPT !.phase = "started"]
                 ELSE NoShare

\* getDisplayMedia is refused: startScreenSharing() returns false
VDisplayReject ==
  /\ vcb' = <<>> /\ vret' = Returned(FALSE)
  /\ vm.capturing > 0
  /\ vm' = [vm EXCEPT !.capturing = @ - 1]
  /\ ss' = NoShare
  /\ UNCHANGED vtracks

\* stopScreenSharing()
VStopScreenSharing ==
  /\ IF ~vm.isScreenSharing \/ vm.localScreenStream = Null
     THEN /\ UNCHANGED <<vm, vtracks>> /\ ss' = NoShare /\ vcb' = <<>>
          /\ vret' = Returned(FALSE)
     ELSE LET cam == vm.localVideoStream
              map == vm.peerConnections
          IN /\ vcb' = <<ScreenSharingChange(FALSE)>>
             /\ vret' = Returned(TRUE)
             /\ vtracks' = VStopTrack(vtracks, vm.localScreenStream)
             /\ vm' = [vm EXCEPT
                         !.localScreenStream = Null,
                         !.isScreenSharing = FALSE,
                         !.peerConnections =
                            IF cam = Null THEN map
                            ELSE [i \in DOMAIN map |->
                                    [map[i] EXCEPT !.senders = RestoreCamera(@, cam)]]]
             /\ ss' = IF ss.phase = "started" THEN [ss EXCEPT !.phase = "stopped"]
                      ELSE NoShare

\* The user stops the capture in the browser: the screen track ends and
\* its 'ended' event fires; the listener, if startScreenSharing() got as
\* far as adding it, calls stopScreenSharing().
VScreenEnded ==
  /\ vm.localScreenStream # Null
  /\ vtracks[vm.localScreenStream].live
  /\ IF vtracks[vm.localScreenStream].listening THEN VStopScreenSharing
     ELSE /\ vtracks' = [vtracks EXCEPT ![vm.localScreenStream].live = FALSE]
          /\ vcb' = <<>> /\ ss' = NoShare /\ vret' = NoneSettled
          /\ UNCHANGED vm

\* toggleScreenSharing(): stopScreenSharing() while sharing, and
\* startScreenSharing() otherwise; it returns what the one it called returns
VToggleScreenSharing ==
  IF vm.isScreenSharing THEN VStopScreenSharing ELSE VStartScreenSharing

\* The connectionstatechange event of the connection of peerId's entry,
\* with its handler: for disconnected, failed and closed it calls
\* onRemoteStreamRemoved(peerId) and deletes the peer's monitor entry; the
\* entry in peerConnections and the handler itself stay.
VStates == {"connected", "disconnected", "failed", "closed"}
\* The states for which the handler acts
VStateRemoves(state) == state \in {"disconnected", "failed", "closed"}
VConnectionStateChange(peerId, state) ==
  /\ VEntry(vm.peerConnections, peerId) # Null
  /\ LET e == VEntry(vm.peerConnections, peerId) IN
     /\ vm.peerConnections[e].state \notin {state, "closed"}
     /\ state = "connected" => vm.peerConnections[e].state # "failed"
     /\ vm' = [vm EXCEPT !.peerConnections[e].state = state]
     /\ vcb' = IF VStateRemoves(state)
               THEN <<[name |-> "onRemoteStreamRemoved", arg |-> peerId]>>
               ELSE <<>>
  /\ vret' = NoneSettled
  /\ UNCHANGED <<vtracks, ss>>

\* leaveRoom(): disconnect()
VLeaveRoom ==
  /\ vcb' = <<>> /\ vret' = NoneSettled
  /\ vtracks' = VStopTrack(VStopTrack(VStopTrack(vtracks, vm.localStream),
                                      vm.localVideoStream), vm.localScreenStream)
  /\ vm' = [vm EXCEPT !.localStream = Null, !.localVideoStream = Null,
                      !.localScreenStream = Null,
                      !.isScreenSharing = IF vm.localScreenStream = Null THEN @ ELSE FALSE,
                      !.peerConnections = <<>>,
                      !.roomId = "null", !.listening = FALSE, !.answered = {}]
  /\ ss' = NoShare

(***************************************************************************)
(* Initial states and specifications                                       *)
(***************************************************************************)
QMInit0 ==
  /\ qm = [monitorInterval |-> FALSE, pending |-> 0, stats |-> QMInitStats]
  /\ qmCalls = <<>>
  /\ qmLabels = <<>>
  /\ aqm = [intervalId |-> FALSE, pending |-> 0, currentQuality |-> "unknown"]
  /\ aqmCalls = <<>>
  /\ aqmLabels = <<>>
  /\ qmClock = 1000
  /\ qmTicks = 0

QLInit0 ==
  /\ ql = [report |-> Report(FALSE, Null, FALSE, 0, 0, 0, Null), label |-> "unknown",
           done |-> TRUE]
  /\ WqInit0

SDInit0 ==
  /\ sd = SDInit
  /\ sdNow = 1000
  /\ sdHist = <<>>
  /\ sdCalls = <<>>
  /\ sdTicks = 0
  /\ sdDelivered = <<>>

\* Quality monitors
InitQM == QMInit0 /\ QLInit0 /\ SDInit0 /\ MInit0({}) /\ VInit0
NextQM ==
  \/ (QMStart /\ UNCHANGED <<qlVars, sdVars, mVars, vVars>>)
  \/ (QMStop /\ UNCHANGED <<qlVars, sdVars, mVars, vVars>>)
  \/ (QMTickStart /\ UNCHANGED <<qlVars, sdVars, mVars, vVars>>)
  \/ (\E r \in QMReports : QMTickDone(r) /\ UNCHANGED <<qlVars, sdVars, mVars, vVars>>)
  \/ (QMTickFail /\ UNCHANGED <<qlVars, sdVars, mVars, vVars>>)
  \/ (AqmStart /\ UNCHANGED <<qlVars, sdVars, mVars, vVars>>)
  \/ (AqmStop /\ UNCHANGED <<qlVars, sdVars, mVars, vVars>>)
  \/ (AqmTickStart /\ UNCHANGED <<qlVars, sdVars, mVars, vVars>>)
  \/ (\E r \in QMReports : AqmTickDone(r) /\ UNCHANGED <<qlVars, sdVars, mVars, vVars>>)
  \/ (AqmTickFail /\ UNCHANGED <<qlVars, sdVars, mVars, vVars>>)
SpecQM == InitQM /\ [][NextQM]_vars

\* Threshold table: every report of the grid, then the label
InitQL ==
  /\ QMInit0 /\ SDInit0 /\ MInit0({}) /\ VInit0 /\ WqInit0
  /\ \E crt \in RttValues, lost \in LostValues :
       ql = [report |-> Report(TRUE, crt, TRUE, lost, LossTotal - lost, 0, Null),
             label |-> "unknown", done |-> FALSE]
NextQL == QLApply
SpecQL == InitQL /\ [][NextQL]_vars

\* The video quality monitor with its timer and the presets the
\* application chooses
InitWQ == QMInit0 /\ QLInit0 /\ SDInit0 /\ MInit0({}) /\ VInit0
NextWQ ==
  \/ (WqStartMonitoring /\ UNCHANGED <<qmVars, sdVars, mVars, vVars>>)
  \/ (WqStopMonitoring /\ UNCHANGED <<qmVars, sdVars, mVars, vVars>>)
  \/ (\E r \in WqRtts, b \in WqBitrates, f \in WqFrameRates :
        WqTick(r, b, f) /\ UNCHANGED <<qmVars, sdVars, mVars, vVars>>)
  \/ (\E p \in SetQualityArgs :
        WqSetQuality(p) /\ UNCHANGED <<qmVars, sdVars, mVars, vVars>>)
SpecWQ == InitWQ /\ [][NextWQ]_vars

\* Speaking detector
InitSD == QMInit0 /\ QLInit0 /\ SDInit0 /\ MInit0({}) /\ VInit0
NextSD ==
  \/ (\E ok \in BOOLEAN : SDStart(ok) /\ UNCHANGED <<qmVars, qlVars, mVars, vVars>>)
  \/ (SDStop /\ UNCHANGED <<qmVars, qlVars, mVars, vVars>>)
  \/ (\E level \in SDLevels, delay \in SDDelays :
        SDTick(level, delay) /\ UNCHANGED <<qmVars, qlVars, mVars, vVars>>)
SpecSD == InitSD /\ [][NextSD]_vars

\* One audio manager (user A) with the application, the platform and the
\* remote peers B and C as its environment
GumErrors == {"NotAllowedError", "NotFoundError", "NotReadableError",
              "OverconstrainedError", "AbortError"}
PcOutcomes == {"run", "fail", "drop"}
LossStates == {"disconnected", "failed"}
Init == QMInit0 /\ QLInit0 /\ SDInit0 /\ MInit0({"A"}) /\ VInit0
Next ==
  \/ (Initialize("A") /\ UNCHANGED <<qmVars, qlVars, sdVars, vVars>>)
  \/ (\E g \in gum["A"].pending, d \in BOOLEAN :
        GumResolve("A", g, d) /\ UNCHANGED <<qmVars, qlVars, sdVars, vVars>>)
  \/ (\E g \in gum["A"].pending, e \in GumErrors, d \in BOOLEAN :
        GumReject("A", g, e, d) /\ UNCHANGED <<qmVars, qlVars, sdVars, vVars>>)
  \/ (\E p \in Users, d \in BOOLEAN :
        StartCall("A", p, d) /\ UNCHANGED <<qmVars, qlVars, sdVars, vVars>>)
  \/ (\E p \in Users :
        AcceptIncomingCall("A", p) /\ UNCHANGED <<qmVars, qlVars, sdVars, vVars>>)
  \/ (\E p \in Users : HandleAnswer("A", p) /\ UNCHANGED <<qmVars, qlVars, sdVars, vVars>>)
  \/ (\E p \in Users : AddIceCandidate("A", p) /\ UNCHANGED <<qmVars, qlVars, sdVars, vVars>>)
  \/ (\E c \in DOMAIN pcs["A"], o \in PcOutcomes :
        PcOpStep("A", c, o) /\ UNCHANGED <<qmVars, qlVars, sdVars, vVars>>)
  \/ (\E c \in DOMAIN pcs["A"] :
        IceCandidateEvent("A", c) /\ UNCHANGED <<qmVars, qlVars, sdVars, vVars>>)
  \/ (\E c \in DOMAIN pcs["A"] :
        ConnectionStateChange("A", c, "connected")
          /\ UNCHANGED <<qmVars, qlVars, sdVars, vVars>>)
  \/ (\E c \in DOMAIN pcs["A"], st \in LossStates :
        ConnectionStateChange("A", c, st) /\ UNCHANGED <<qmVars, qlVars, sdVars, vVars>>)
  \/ (LeaveRoom("A") /\ UNCHANGED <<qmVars, qlVars, sdVars, vVars>>)
  \/ (Dispose("A") /\ UNCHANGED <<qmVars, qlVars, sdVars, vVars>>)
Spec == Init /\ [][Next]_vars

\* The same manager when a cleanup step of a teardown may throw
InitTD == Init
NextTD ==
  \/ Next
  \/ (\E f \in StepsRun(World("A")) :
        LeaveRoomFails("A", f) /\ UNCHANGED <<qmVars, qlVars, sdVars, vVars>>)
  \/ (\E f \in StepsRun(World("A")) :
        DisposeFails("A", f) /\ UNCHANGED <<qmVars, qlVars, sdVars, vVars>>)
SpecTD == InitTD /\ [][NextTD]_vars

\* The signaling server with the sockets of three users, each sending what
\* the manager emits or an object with a `target` property
InitSV == Init
NextSV ==
  \/ (\E s \in Sockets, ok \in BOOLEAN :
        SrvRegister(s, ok) /\ UNCHANGED <<qmVars, qlVars, sdVars, vVars>>)
  \/ (\E s \in Sockets : SrvDisconnect(s) /\ UNCHANGED <<qmVars, qlVars, sdVars, vVars>>)
  \/ (\E s \in Sockets, e \in SigEvents, to \in Sockets, b \in Bodies :
        SrvSignal(s, e, ManagerPayload(s, e, to, b))
          /\ UNCHANGED <<qmVars, qlVars, sdVars, vVars>>)
  \/ (\E s \in Sockets, e \in SigEvents, to \in Sockets, b \in Bodies :
        SrvSignal(s, e, TargetPayload(e, to, b))
          /\ UNCHANGED <<qmVars, qlVars, sdVars, vVars>>)
  \/ (\E s \in Sockets, e \in SigEvents, f \in Sockets, to \in Sockets, b \in Bodies :
        SrvSignal(s, e, NamedSenderPayload(e, f, to, b))
          /\ UNCHANGED <<qmVars, qlVars, sdVars, vVars>>)
SpecSV == InitSV /\ [][NextSV]_vars

\* The handshake of two managers: A calls B once, the server relays every
\* message to its addressee in order, the platform completes every
\* operation and the transport connects. B may initialize its microphone
\* at any moment.
HSUsers == {"A", "B"}
HSCall ==
  /\ hist["A"].calls = 0
  /\ \E d \in BOOLEAN : StartCall("A", "B", d)
HSInitialize == hist["B"].calls = 0 /\ Initialize("B")
HSGum(n) == \E g \in gum[n].pending, d \in BOOLEAN : GumResolve(n, g, d)
HSReceive(n) == \E from \in HSUsers : Receive(n, from)
HSOp(n) == \E c \in DOMAIN pcs[n] : PcOpStep(n, c, "run")
HSIce(n) == \E c \in DOMAIN pcs[n] : IceCandidateEvent(n, c)
HSConnect(n) == \E c \in DOMAIN pcs[n] : ConnectionStateChange(n, c, "connected")
InitHS == QMInit0 /\ QLInit0 /\ SDInit0 /\ MInit0(HSUsers) /\ VInit0
NextHS ==
  \/ (HSCall /\ UNCHANGED <<qmVars, qlVars, sdVars, vVars>>)
  \/ (HSInitialize /\ UNCHANGED <<qmVars, qlVars, sdVars, vVars>>)
  \/ (\E n \in HSUsers : HSGum(n) /\ UNCHANGED <<qmVars, qlVars, sdVars, vVars>>)
  \/ (\E n \in HSUsers : HSReceive(n) /\ UNCHANGED <<qmVars, qlVars, sdVars, vVars>>)
  \/ (\E n \in HSUsers : HSOp(n) /\ UNCHANGED <<qmVars, qlVars, sdVars, vVars>>)
  \/ (\E n \in HSUsers : HSIce(n) /\ UNCHANGED <<qmVars, qlVars, sdVars, vVars>>)
  \/ (\E n \in HSUsers : HSConnect(n) /\ UNCHANGED <<qmVars, qlVars, sdVars, vVars>>)
FairHS ==
  \A n \in HSUsers :
    /\ WF_vars(HSGum(n) /\ UNCHANGED <<qmVars, qlVars, sdVars, vVars>>)
    /\ WF_vars(HSReceive(n) /\ UNCHANGED <<qmVars, qlVars, sdVars, vVars>>)
    /\ WF_vars(HSOp(n) /\ UNCHANGED <<qmVars, qlVars, sdVars, vVars>>)
    /\ WF_vars(HSIce(n) /\ UNCHANGED <<qmVars, qlVars, sdVars, vVars>>)
    /\ WF_vars(HSConnect(n) /\ UNCHANGED <<qmVars, qlVars, sdVars, vVars>>)
SpecHS == InitHS /\ [][NextHS]_vars /\ FairHS

\* The video-capable manager with the application, the platform and the
\* peers B and C as its environment
FailAts == {Null, 1, 2}
InitSS == QMInit0 /\ QLInit0 /\ SDInit0 /\ MInit0({}) /\ VInit0
NextSS ==
  \/ (\E ok \in BOOLEAN : VInitialize(ok) /\ UNCHANGED <<qmVars, qlVars, sdVars, mVars>>)
  \/ (\E p \in VPeers : VUserConnected(p) /\ UNCHANGED <<qmVars, qlVars, sdVars, mVars>>)
  \/ (\E p \in VPeers : VUserDisconnected(p) /\ UNCHANGED <<qmVars, qlVars, sdVars, mVars>>)
  \/ (\E ok \in BOOLEAN, f \in FailAts :
        VEnableVideo(ok, f) /\ UNCHANGED <<qmVars, qlVars, sdVars, mVars>>)
  \/ (VDisableVideo /\ UNCHANGED <<qmVars, qlVars, sdVars, mVars>>)
  \/ (VStartScreenSharing /\ UNCHANGED <<qmVars, qlVars, sdVars, mVars>>)
  \/ (\E f \in FailAts, e \in BOOLEAN :
        VDisplayResolve(f, e) /\ UNCHANGED <<qmVars, qlVars, sdVars, mVars>>)
  \/ (VScreenEnded /\ UNCHANGED <<qmVars, qlVars, sdVars, mVars>>)
  \/ (VDisplayReject /\ UNCHANGED <<qmVars, qlVars, sdVars, mVars>>)
  \/ (VStopScreenSharing /\ UNCHANGED <<qmVars, qlVars, sdVars, mVars>>)
  \/ (VToggleScreenSharing /\ UNCHANGED <<qmVars, qlVars, sdVars, mVars>>)
  \/ (VLeaveRoom /\ UNCHANGED <<qmVars, qlVars, sdVars, mVars>>)
SpecSS == InitSS /\ [][NextSS]_vars

\* One audio manager constructed with any subset of the callbacks, and its
\* microphone operations
InitCB ==
  /\ QMInit0 /\ QLInit0 /\ SDInit0 /\ MFields0({"A"}) /\ VInit0
  /\ \E S \in SUBSET Callbacks : opts = [n \in Users |-> S]
NextCB ==
  \/ (Initialize("A") /\ UNCHANGED <<qmVars, qlVars, sdVars, vVars>>)
  \/ (\E g \in gum["A"].pending :
        GumResolve("A", g, FALSE) /\ UNCHANGED <<qmVars, qlVars, sdVars, vVars>>)
  \/ (\E g \in gum["A"].pending, e \in GumErrors :
        GumReject("A", g, e, FALSE) /\ UNCHANGED <<qmVars, qlVars, sdVars, vVars>>)
  \/ (RetryMicrophoneAccess("A") /\ UNCHANGED <<qmVars, qlVars, sdVars, vVars>>)
  \/ (\E g \in gum["A"].pending :
        RetryResolve("A", g) /\ UNCHANGED <<qmVars, qlVars, sdVars, vVars>>)
  \/ (\E g \in gum["A"].pending, e \in GumErrors :
        RetryReject("A", g, e) /\ UNCHANGED <<qmVars, qlVars, sdVars, vVars>>)
  \/ (LeaveRoom("A") /\ UNCHANGED <<qmVars, qlVars, sdVars, vVars>>)
  \/ (Dispose("A") /\ UNCHANGED <<qmVars, qlVars, sdVars, vVars>>)
SpecCB == InitCB /\ [][NextCB]_vars

\* One audio manager, its microphone operations and the calls it starts
InitMR == Init
NextMR ==
  \/ (Initialize("A") /\ UNCHANGED <<qmVars, qlVars, sdVars, vVars>>)
  \/ (\E g \in gum["A"].pending :
        GumResolve("A", g, FALSE) /\ UNCHANGED <<qmVars, qlVars, sdVars, vVars>>)
  \/ (\E g \in gum["A"].pending, e \in GumErrors :
        GumReject("A", g, e, FALSE) /\ UNCHANGED <<qmVars, qlVars, sdVars, vVars>>)
  \/ (RetryMicrophoneAccess("A") /\ UNCHANGED <<qmVars, qlVars, sdVars, vVars>>)
  \/ (\E g \in gum["A"].pending :
        RetryResolve("A", g) /\ UNCHANGED <<qmVars, qlVars, sdVars, vVars>>)
  \/ (\E g \in gum["A"].pending, e \in GumErrors :
        RetryReject("A", g, e) /\ UNCHANGED <<qmVars, qlVars, sdVars, vVars>>)
  \/ (\E p \in Users :
        StartCall("A", p, FALSE) /\ UNCHANGED <<qmVars, qlVars, sdVars, vVars>>)
  \/ (\E c \in DOMAIN pcs["A"], o \in PcOutcomes :
        PcOpStep("A", c, o) /\ UNCHANGED <<qmVars, qlVars, sdVars, vVars>>)
  \/ (LeaveRoom("A") /\ UNCHANGED <<qmVars, qlVars, sdVars, vVars>>)
SpecMR == InitMR /\ [][NextMR]_vars

\* The video-capable manager with the state changes of its connections
InitVC == InitSS
NextVC ==
  \/ (\E ok \in BOOLEAN : VInitialize(ok) /\ UNCHANGED <<qmVars, qlVars, sdVars, mVars>>)
  \/ (\E p \in VPeers : VUserConnected(p) /\ UNCHANGED <<qmVars, qlVars, sdVars, mVars>>)
  \/ (\E p \in VPeers : VUserDisconnected(p) /\ UNCHANGED <<qmVars, qlVars, sdVars, mVars>>)
  \/ (\E p \in VPeers, s \in VStates :
        VConnectionStateChange(p, s) /\ UNCHANGED <<qmVars, qlVars, sdVars, mVars>>)
  \/ (VLeaveRoom /\ UNCHANGED <<qmVars, qlVars, sdVars, mVars>>)
SpecVC == InitVC /\ [][NextVC]_vars

\* The video-capable manager with the events of its socket
InitRJ == InitSS
NextRJ ==
  \/ (\E ok \in BOOLEAN : VInitialize(ok) /\ UNCHANGED <<qmVars, qlVars, sdVars, mVars>>)
  \/ (\E p \in VPeers : VUserConnected(p) /\ UNCHANGED <<qmVars, qlVars, sdVars, mVars>>)
  \/ (\E p \in VPeers : VUserDisconnected(p) /\ UNCHANGED <<qmVars, qlVars, sdVars, mVars>>)
  \/ (\E p \in VPeers, a \in BOOLEAN :
        VReceiveOffer(p, a) /\ UNCHANGED <<qmVars, qlVars, sdVars, mVars>>)
  \/ (\E ok \in BOOLEAN, f \in FailAts :
        VEnableVideo(ok, f) /\ UNCHANGED <<qmVars, qlVars, sdVars, mVars>>)
  \/ (VLeaveRoom /\ UNCHANGED <<qmVars, qlVars, sdVars, mVars>>)
SpecRJ == InitRJ /\ [][NextRJ]_vars

(***************************************************************************)
(* Properties of the quality monitors                                      *)
(***************************************************************************)
\* The labels of a tick sequence at which the label changes, the label
\* before the first tick being "unknown".
LabelChanges(labels) ==
  LET Prev(i) == IF i = 1 THEN "unknown" ELSE labels[i - 1]
      F[i \in 0..Len(labels)] ==
        IF i = 0 THEN <<>>
        ELSE IF labels[i] # Prev(i) THEN Append(F[i - 1], labels[i]) ELSE F[i - 1]
  IN F[Len(labels)]

\* C4: for every tick sequence, the quality-change callback is invoked exactly
\* on the ticks whose label differs from the label of the previous tick
\* (initially "unknown"): the calls made are the label changes of the sequence,
\* so N equal labels in a row give one call, or none if already at that label.
C4_CallbackOnlyOnLabelChange ==
  /\ qmCalls = LabelChanges(qmLabels)
  /\ aqmCalls = LabelChanges(aqmLabels)

\* Three ticks, the last two with the same label, and two calls made
C4_Witness ==
  /\ Len(qmLabels) = 3
  /\ qmLabels[2] = qmLabels[3]
  /\ qmLabels[1] # qmLabels[2]
  /\ Len(qmCalls) = 2

\* The best tier of the ordered table whose two bounds both hold, else "bad".
TierOrder == <<"excellent", "good", "fair", "poor">>
TierHolds(name, rttMs, lost, total) ==
  /\ rttMs <= QualityThresholds[name].rtt
  /\ lost * 100 <= QualityThresholds[name].packetLoss * total
BestTier(rttMs, lost, total) ==
  LET ok == {i \in 1..Len(TierOrder) : TierHolds(TierOrder[i], rttMs, lost, total)}
  IN IF ok = {} THEN "bad"
     ELSE TierOrder[CHOOSE i \in ok : \A j \in ok : i <= j]

\* C5: for every reported RTT >= 0 ms and loss fraction in [0,1] the label is
\* the best tier whose RTT bound and loss bound both hold, "bad" when even the
\* poor bounds fail; RTT 120 ms with 0.5% loss is "excellent", RTT 400 ms with
\* 5% loss is "fair".
C5_LabelIsBestTier ==
  ql.done /\ ql.report.pair /\ ql.report.inbound =>
    LET r == ql.report IN
    /\ r.crt >= 0 => ql.label = BestTier(r.crt, r.lost, r.lost + r.recv)
    /\ (r.crt = 120 /\ r.lost = 5) => ql.label = "excellent"
    /\ (r.crt = 400 /\ r.lost = 50) => ql.label = "fair"

(***************************************************************************)
(* Properties of the speaking detector                                     *)
(***************************************************************************)
MinOf(S) == CHOOSE x \in S : \A y \in S : x <= y

\* Indexes of the above-threshold samples of a history
AboveIdx(h) == {i \in 1..Len(h) : h[i].above}

\* The above-threshold samples form one uninterrupted burst (or there are none)
SingleBurst(h) == \A i, j \in AboveIdx(h) : \A k \in i..j : h[k].above

\* Times of the onSpeakingChange(val) calls
CallTimes(calls, val) ==
  LET F[i \in 0..Len(calls)] ==
        IF i = 0 THEN <<>>
        ELSE IF calls[i].val = val THEN Append(F[i - 1], calls[i].t) ELSE F[i - 1]
  IN F[Len(calls)]

\* For a single burst: the first sample of the burst at which the time since
\* the burst began has reached minSpeakingTime, if any.
BurstCrossing(h) ==
  IF AboveIdx(h) = {} THEN <<>>
  ELSE LET first == MinOf(AboveIdx(h))
           hits == {k \in AboveIdx(h) : h[k].t - h[first].t >= MinSpeakingTime}
       IN IF hits = {} THEN <<>> ELSE <<h[MinOf(hits)].t>>

RunStart(h, k, flag) ==
  MinOf({i \in 1..k : \A j \in i..k : h[j].above = flag})

\* Index of the sample taken at time t
SampleAt(h, t) == CHOOSE k \in 1..Len(h) : h[k].t = t

\* C7: every onSpeakingChange(true) is preceded by an uninterrupted run of
\* above-threshold samples spanning at least minSpeakingTime.
C7_SpeakingNeedsContinuousSound ==
  \A c \in 1..Len(sdCalls) :
    sdCalls[c].val =>
      LET k == SampleAt(sdHist, sdCalls[c].t) IN
      /\ sdHist[k].above
      /\ sdHist[k].t - sdHist[RunStart(sdHist, k, TRUE)].t >= MinSpeakingTime

\* C8: every onSpeakingChange(false) is preceded by an uninterrupted run of
\* below-threshold samples spanning at least speakingDecayTime.
C8_SilenceNeedsContinuousDecay ==
  \A c \in 1..Len(sdCalls) :
    ~sdCalls[c].val =>
      LET k == SampleAt(sdHist, sdCalls[c].t) IN
      /\ ~sdHist[k].above
      /\ sdHist[k].t - sdHist[RunStart(sdHist, k, FALSE)].t >= SpeakingDecayTime

\* Speaking ended after a pause shorter than the decay time had been
\* interrupted by sound
C8_Witness ==
  /\ Len(sdCalls) = 2
  /\ ~sdCalls[2].val
  /\ \E i \in 1..Len(sdHist) :
       /\ sdHist[i].t > sdCalls[1].t
       /\ sdHist[i].above
       /\ \E j \in 1..(i - 1) : sdHist[j].t > sdCalls[1].t /\ ~sdHist[j].above

(***************************************************************************)
(* Properties of the audio manager                                         *)
(***************************************************************************)
AtMostOneEntryPerPeer(n) ==
  \A e1, e2 \in mgr[n].peerConnections : e1.key = e2.key => e1 = e2

C2_SecondStartCallIsNoOp ==
  [][\A n \in Users, p \in Users, dup \in BOOLEAN :
       (StartCall(n, p, dup) /\ MapHas(mgr[n].peerConnections, p)) =>
          /\ Len(pcs'[n]) = Len(pcs[n])
          /\ mgr'[n].peerConnections = mgr[n].peerConnections
          /\ \A c \in DOMAIN pcs[n] : pcs'[n][c].ops = pcs[n][c].ops
          /\ hist'[n].ret # "threw"]_vars

\* C10: a leaveRoom() that directly follows a leaveRoom() stops no track,
\* closes no connection, stops no detector and no monitor, reports no error
\* and does not throw.
C10_SecondLeaveRoomDoesNothing ==
  [][\A n \in Users :
       (LeaveRoom(n) /\ hist[n].leaveRuns >= 1) =>
          /\ tracks'[n] = tracks[n]
          /\ pcs'[n] = pcs[n]
          /\ dets'[n] = dets[n]
          /\ mons'[n] = mons[n]
          /\ cb'[n] = <<>>
          /\ hist'[n].ret # "threw"]_vars

\* leaveRoom() has run twice in a row on a manager whose first leaveRoom()
\* stopped the local track and the detector and closed a connection
C10_Witness ==
  \E n \in active :
    /\ hist[n].leaveRuns = 2
    /\ \E t \in DOMAIN tracks[n] : tracks[n][t].stops = 1
    /\ \E d \in DOMAIN dets[n] : dets[n][d].stops = 1
    /\ \E c \in DOMAIN pcs[n] : pcs[n][c].closes = 1 /\ pcs[n][c].senders # <<>>

EntryConnected(n, p) ==
  LET c == MapGet(mgr[n].peerConnections, p) IN
  c # Null /\ pcs[n][c].connectionState = "connected"
BothConnected == EntryConnected("A", "B") /\ EntryConnected("B", "A")

\* C3: once A has called startCall(B), with every message relayed in order,
\* every platform operation completing and the transport connecting when
\* both descriptions and a candidate are applied on both sides, A's entry
\* for B and B's entry for A are eventually both connected.
C3_HandshakeConnects == (hist["A"].calls > 0) ~> BothConnected

\* both entries are connected, after A applied B's answer and B's candidate
C3_Witness ==
  /\ BothConnected
  /\ LET c == MapGet(mgr["A"].peerConnections, "B") IN
       pcs["A"][c].remoteDesc /\ pcs["A"][c].candidates > 0

(***************************************************************************)
(* Properties of the video-capable manager                                 *)
(***************************************************************************)
\* C9: when startScreenSharing() has returned true and stopScreenSharing()
\* is called next, every connection sends the same tracks on the same kinds
\* of senders as when startScreenSharing() was called.
C9_RoundTripRestoresSenders ==
  ss.phase = "stopped" => SenderSets(vm.peerConnections) = ss.before

(***************************************************************************)
(* Teardown, late completions and signalling of the audio manager          *)
(***************************************************************************)
\* What leaveRoom() or dispose() of user n leaves behind, seen across the
\* step that runs it: the entries held before, and the state after.
EntriesTornDown(n) ==
  \A e \in mgr[n].peerConnections :
    /\ pcs'[n][e.val].connectionState = "closed"
    /\ ~pcs'[n][e.val].handlers
    /\ \A i \in DOMAIN mons[n] : mons[n][i].conn = e.val => ~mons'[n][i].running
TracksStopped(n) == \A t \in DOMAIN tracks'[n] : ~tracks'[n][t].live
DetectorStopped(n) ==
  mgr[n].speakingDetector # Null => ~dets'[n][mgr[n].speakingDetector].running
FieldsReset(n) == mgr'[n] = [MgrInit EXCEPT !.socketBound = mgr'[n].socketBound]

\* C11: when leaveRoom() or dispose() returns, every entry the manager held
\* is closed with its handlers detached and its quality monitor stopped,
\* every local track is stopped, the speaking detector is stopped, and the
\* session fields have the values they had before initialize().
C11_TeardownIsComplete ==
  [][\A n \in Users :
       (LeaveRoom(n) \/ Dispose(n)) =>
         /\ EntriesTornDown(n) /\ TracksStopped(n)
         /\ DetectorStopped(n) /\ FieldsReset(n)]_vars

\* An initialize() call of user n settles in this step: one capture request
\* leaves the pending set and no follow-up request takes its place.
InitializeSettles(n) ==
  \E g \in gum[n].pending : gum'[n].pending = gum[n].pending \ {g}

\* leaveRoom() ran while every pending capture of user n was waiting, and
\* no initialize() ran since: initialize() stores the room id before it
\* requests a capture and only leaveRoom() resets it.
LeftWhilePending(n) == gum[n].pending # {} /\ mgr[n].roomId = "null"

\* The track a capture resolving in this step brought is not left live.
AcquiredNotLive(n) ==
  Len(tracks'[n]) > Len(tracks[n]) => ~tracks'[n][Len(tracks'[n])].live

\* C12: an initialize() call that was waiting for the capture when
\* leaveRoom() or dispose() ran settles with its result discarded: the
\* manager then holds no local stream and no speaking detector, and the
\* track it acquired is not live.
C12_LateCaptureIsDiscarded ==
  [][\A n \in Users :
       LeftWhilePending(n) /\ InitializeSettles(n) =>
         /\ mgr'[n].localStream = Null
         /\ mgr'[n].speakingDetector = Null
         /\ AcquiredNotLive(n)]_vars

\* The connections user n made for peer p, and the createOffer calls
\* waiting or running on them
ConnsOf(n, p) == {c \in DOMAIN pcs[n] : pcs[n][c].peer = p}
OfferCreations(n, p) ==
  UNION {{<<c, i>> : i \in {j \in DOMAIN pcs[n][c].ops :
                              pcs[n][c].ops[j].op = "createOffer"}} :
         c \in ConnsOf(n, p)}

\* An offer/answer exchange of user n with peer p is in flight: an offer is
\* being created or set, or a live connection is not in the stable state.
ExchangeInFlight(n, p) ==
  \E c \in ConnsOf(n, p) :
    /\ pcs[n][c].signalingState # "closed"
    /\ \/ pcs[n][c].signalingState # "stable"
       \/ \E j \in DOMAIN pcs[n][c].ops :
            pcs[n][c].ops[j].op \in {"createOffer", "setLocalOffer"}

\* C13: for one peer the manager starts no createOffer while an earlier
\* offer/answer exchange with that peer is in flight, so at most one offer
\* creation per peer is under way.
C13_OneOfferInFlightPerPeer ==
  [][\A n \in Users : \A p \in Users :
       Cardinality(OfferCreations(n, p)') > Cardinality(OfferCreations(n, p)) =>
         /\ ~ExchangeInFlight(n, p)
         /\ Cardinality(OfferCreations(n, p)') <= 1]_vars

StartCallReturns(n, c) ==
  /\ ConnsOf(n, pcs[n][c].peer) = {c}
  /\ pcs[n][c].ops # <<>>
  /\ Head(pcs[n][c].ops) = [op |-> "setLocalOffer", by |-> "startCall"]
  /\ pcs'[n][c].ops = Tail(pcs[n][c].ops)
  /\ hist'[n].ret = "ok"
  /\ sent'[n] = <<[type |-> "offer", to |-> pcs[n][c].peer]>>

\* C15: when a startCall(peerId) for a peer without an entry succeeds, the
\* peer has one entry, the new connection sends every local track once, and
\* the offer startCall transmits is the only one sent for that connection.
C15_StartCallOneEntryOneOffer ==
  [][\A n \in Users : \A c \in DOMAIN pcs[n] :
       StartCallReturns(n, c) =>
         /\ MapGet(mgr'[n].peerConnections, pcs[n][c].peer) = c
         /\ \A i, j \in DOMAIN pcs'[n][c].senders :
              pcs'[n][c].senders[i] = pcs'[n][c].senders[j] => i = j
         /\ ~pcs[n][c].localDesc]_vars

\* The offer of the peer is applied to connection c of user n in this step.
OfferApplied(n, c) ==
  /\ pcs[n][c].ops # <<>>
  /\ Head(pcs[n][c].ops).op = "setRemoteOffer"
  /\ pcs'[n][c].signalingState = "have-remote-offer"
  /\ pcs'[n][c].ops # <<>>
  /\ pcs'[n][c].ops[Len(pcs'[n][c].ops)].op = "createAnswer"

\* Connection c of user n has an offer of its own pending: created or
\* being created, and not answered.
LocalOfferPending(n, c) ==
  \/ pcs[n][c].signalingState = "have-local-offer"
  \/ \E j \in DOMAIN pcs[n][c].ops :
       pcs[n][c].ops[j].op \in {"createOffer", "setLocalOffer"}

\* C16: the offer of a peer is applied as remote description, and answered,
\* only on a connection that has no local offer of its own pending.
C16_OfferAppliedWithoutLocalOffer ==
  [][\A n \in Users : \A c \in DOMAIN pcs[n] :
       OfferApplied(n, c) => ~LocalOfferPending(n, c)]_vars

\* C17: handleAnswer and addIceCandidate for a peer without an entry drop
\* the message: no entry and no connection is made, no operation is queued
\* on any connection, nothing is sent, no callback is invoked, and tracks,
\* detectors, monitors and pending captures stay as they were.
C17_NoEntryDropsMessage ==
  [][\A n \in Users : \A p \in Users :
       /\ ~MapHas(mgr[n].peerConnections, p)
       /\ HandleAnswer(n, p) \/ AddIceCandidate(n, p)
       => /\ mgr'[n] = mgr[n] /\ pcs'[n] = pcs[n]
          /\ sent'[n] = <<>> /\ cb'[n] = <<>>
          /\ UNCHANGED <<tracks, dets, mons, gum, net>>]_vars

\* With an entry for C whose offer is being applied, a message of B, who
\* has no entry, was dropped in the last step.
C17_Witness ==
  \E n \in active :
    /\ hist[n].calls = 2 /\ hist[n].ret = "ok"
    /\ cb[n] = <<>> /\ sent[n] = <<>>
    /\ ~MapHas(mgr[n].peerConnections, "B")
    /\ MapGet(mgr[n].peerConnections, "C") = 1
    /\ Len(pcs[n]) = 1
    /\ pcs[n][1].ops = <<[op |-> "setRemoteOffer", by |-> "acceptIncomingCall"]>>

(***************************************************************************)
(* Connection state changes of the video-capable manager                   *)
(***************************************************************************)
\* C18: when the connection of a peer's entry enters disconnected, failed
\* or closed, the peer's entry is removed and the peer-disconnect callback
\* is invoked once for that peer, for each of the three states alike.
C18_StateChangeRemovesEntry ==
  [][\A p \in VPeers : \A s \in VStates :
       VConnectionStateChange(p, s) /\ VStateRemoves(s) =>
         /\ VEntry(vm'.peerConnections, p) = Null
         /\ Len(SelectSeq(vcb', LAMBDA x : x.arg = p)) = 1]_vars

(***************************************************************************)
(* Microphone capture failures                                             *)
(***************************************************************************)
\* The capture request g of an initialize() call of user n is rejected with
\* err in this step, and the call fails.
CaptureFails(n, err) ==
  \E g \in gum[n].pending : \E d \in BOOLEAN :
    g.stage = "basic" /\ GumReject(n, g, err, d)

Denied == [name |-> "onMicrophoneStatus", arg |-> "denied"]

\* C19: an initialize() that fails on a denied capture reports 'denied' and
\* throws; from then until leaveRoom() or dispose(), every initialize()
\* requests no capture and reports 'denied' again.
C19_DeniedIsNotRetried ==
  [][\A n \in Users :
       /\ CaptureFails(n, "NotAllowedError") =>
            /\ \E i \in DOMAIN cb'[n] : cb'[n][i] = Denied
            /\ hist'[n].ret = "threw"
       /\ hist[n].denied /\ Initialize(n) =>
            /\ gum'[n] = gum[n]
            /\ cb'[n] = <<Denied>>]_vars

\* A second initialize() after a denial has returned without a request.
C19_Witness ==
  \E n \in active :
    /\ hist[n].denied /\ hist[n].calls = 2
    /\ cb[n] = <<Denied>> /\ hist[n].ret = "ok"
    /\ gum[n] = [count |-> 1, pending |-> {}]
    /\ tracks[n] = <<>>

\* The statuses that report a failure
FailureStatuses == {"denied", "unavailable", "error"}
StatusCalls(n) ==
  SelectSeq(cb'[n], LAMBDA x : x.name = "onMicrophoneStatus" /\ x.arg \in FailureStatuses)

\* C20: for every kind of capture failure, the failing initialize() invokes
\* the microphone-status callback once with a failure status and throws.
C20_EveryFailureReportsStatus ==
  [][\A n \in Users : \A err \in GumErrors :
       CaptureFails(n, err) =>
         /\ Len(StatusCalls(n)) = 1
         /\ hist'[n].ret = "threw"]_vars

\* The enhanced capture of the one initialize() call user n has made so far
\* is rejected, or resolves, in this step, with the plain stream in place.
PlainInPlace(n) == gum[n].count = 1 /\ mgr[n].localStream # Null
EnhancedRejected(n) ==
  /\ PlainInPlace(n)
  /\ \E g \in gum[n].pending : \E err \in GumErrors : \E d \in BOOLEAN :
       g.stage = "enhanced" /\ GumReject(n, g, err, d)
EnhancedResolved(n) ==
  /\ PlainInPlace(n)
  /\ \E g \in gum[n].pending : \E d \in BOOLEAN :
       g.stage = "enhanced" /\ GumResolve(n, g, d)

\* initialize() has succeeded with stream ls: ls is the local stream and is
\* live, and a running speaking detector listens to it.
InitializedOn(n, ls) ==
  /\ mgr'[n].localStream = ls /\ tracks'[n][ls].live
  /\ mgr'[n].microphoneInitialized
  /\ mgr'[n].speakingDetector # Null
  /\ dets'[n][mgr'[n].speakingDetector].running
  /\ dets'[n][mgr'[n].speakingDetector].stream = ls
  /\ \A g \in gum[n].pending : g.then = "none" => hist'[n].ret = "ok"

\* C21: when the enhanced capture fails after the plain one succeeded,
\* initialize() succeeds on the plain stream, which stays live, with the
\* speaking detector started on it; when the enhanced capture succeeds, the
\* plain stream's track is stopped and the enhanced stream is the only live
\* local stream.
C21_EnhancedFallsBackToPlain ==
  [][\A n \in Users :
       /\ EnhancedRejected(n) =>
            /\ InitializedOn(n, mgr[n].localStream)
            /\ tracks'[n] = tracks[n]
       /\ EnhancedResolved(n) =>
            /\ InitializedOn(n, Len(tracks'[n]))
            /\ Len(tracks'[n]) = Len(tracks[n]) + 1
            /\ \A t \in DOMAIN tracks[n] : ~tracks'[n][t].live]_vars

\* initialize() has returned on the plain stream after the enhanced
\* request failed: one track, live, with a running detector on it.
C21_Witness ==
  \E n \in active :
    /\ hist[n].ret = "ok" /\ hist[n].calls = 1
    /\ gum[n] = [count |-> 1, pending |-> {}]
    /\ Len(tracks[n]) = 1 /\ tracks[n][1].live
    /\ mgr[n].localStream = 1
    /\ Len(dets[n]) = 1 /\ dets[n][1].running /\ dets[n][1].stream = 1

(***************************************************************************)
(* Callbacks left out at construction                                      *)
(***************************************************************************)
\* The same state of user n in a manager constructed with every callback
AllPassed(n) == [World(n) EXCEPT !.has = Callbacks]

\* Two outcomes of one handler agree in everything but the callbacks made
SameOutcome(a, b) ==
  /\ a.ret = b.ret /\ a.mgr = b.mgr /\ a.gum = b.gum
  /\ a.tracks = b.tracks /\ a.dets = b.dets /\ a.out = b.out

\* C22: whatever callbacks were left out at construction, initialize() and
\* retryMicrophoneAccess() return or throw, and change the manager, exactly
\* as they do from the same state with every callback passed.
C22_AbsentCallbackIsNoOp ==
  [][\A n \in Users :
       /\ Initialize(n) =>
            SameOutcome(InitializeBody(World(n), "lobby", "none", FALSE),
                        InitializeBody(AllPassed(n), "lobby", "none", FALSE))
       /\ RetryMicrophoneAccess(n) =>
            SameOutcome(RetryBody(World(n)), RetryBody(AllPassed(n)))
       /\ \A g \in gum[n].pending : \A err \in GumErrors :
            RetryReject(n, g, err) =>
              SameOutcome(RetryCatch([World(n) EXCEPT !.gum.pending = @ \ {g}], err),
                          RetryCatch([AllPassed(n) EXCEPT !.gum.pending = @ \ {g}], err))]_vars

(***************************************************************************)
(* Screen sharing and the video senders                                    *)
(***************************************************************************)
\* The state an explicit stopScreenSharing() leaves: not sharing, no screen
\* stream, the camera track on every video sender when there is a camera,
\* and onScreenSharingChange(false) called once.
LeftAsStopped ==
  /\ ~vm'.isScreenSharing /\ vm'.localScreenStream = Null
  /\ vcb' = <<ScreenSharingChange(FALSE)>>
  /\ vm.localVideoStream # Null =>
       \A i \in DOMAIN vm'.peerConnections :
         LET senders == vm'.peerConnections[i].senders IN
         VideoSender(senders) # Null =>
           senders[VideoSender(senders)].track = vm.localVideoStream

\* C23: the screen track's 'ended' event, whenever it fires after the
\* display stream was acquired, leaves the manager as stopScreenSharing()
\* does; so a share that is still active never carries an ended track.
C23_EndedIsHandledAsStop ==
  /\ [][VScreenEnded => LeftAsStopped]_vars
  /\ [](vm.isScreenSharing /\ vm.localScreenStream # Null =>
          vtracks[vm.localScreenStream].live)

(***************************************************************************)
(* C24. The senders of a connection that carry a video track               *)
(***************************************************************************)
OutgoingVideo(senders) ==
  {i \in DOMAIN senders : senders[i].track # Null /\ senders[i].kind = "video"}

\* The track a connection is to send as video: the screen track while
\* sharing, the camera track otherwise
VideoToSend ==
  IF vm.isScreenSharing THEN vm.localScreenStream ELSE vm.localVideoStream

\* C24: every peer connection has at most one outgoing video sender, which
\* carries the screen track while a screen share is active and the camera
\* track otherwise, and the camera capture the manager holds is live, in
\* every state reached by enableVideo, disableVideo, startScreenSharing,
\* stopScreenSharing and peer joins in any order.
C24_OneVideoSenderPerConnection ==
  /\ \A i \in DOMAIN vm.peerConnections :
       LET senders == vm.peerConnections[i].senders IN
       /\ Cardinality(OutgoingVideo(senders)) <= 1
       /\ \A j \in OutgoingVideo(senders) : senders[j].track = VideoToSend
  /\ vm.localVideoStream # Null => vtracks[vm.localVideoStream].live

(***************************************************************************)
(* C26. stop() and the hysteresis state                                    *)
(***************************************************************************)
\* The fields of a detector that remembers nothing
Cold(d) ==
  ~d.speaking /\ d.speakingStartTime = Null /\ d.silenceStartTime = Null

\* The detector was stopped and started again: it sampled before the
\* start() that began the present run
Restarted == sd.checkInterval /\ sdTicks > Len(sdHist)

RestOfCleanupDone(n, f) ==
  /\ \A e \in mgr[n].peerConnections :
       /\ ~pcs'[n][e.val].handlers
       /\ f # [step |-> "close", peer |-> e.key] =>
            pcs'[n][e.val].connectionState = "closed"
       /\ LET m == MapGet(mgr[n].audioQualityMonitors, e.key) IN
            m # Null /\ f # [step |-> "monitor", peer |-> e.key] =>
              ~mons'[n][m].running
  /\ mgr[n].localStream # Null /\ f.step # "track" =>
       ~tracks'[n][mgr[n].localStream].live
  /\ mgr[n].speakingDetector # Null /\ f.step # "detector" =>
       ~dets'[n][mgr[n].speakingDetector].running
  /\ FieldsReset(n)

\* C25: leaveRoom() and dispose() return without throwing and finish the
\* rest of the cleanup when one cleanup step (closing a connection,
\* stopping a monitor, stopping a track, stopping the detector) throws.
C25_TeardownSurvivesFailingStep ==
  [][\A n \in Users : \A f \in StepsRun(World(n)) :
       (LeaveRoomFails(n, f) \/ DisposeFails(n, f)) =>
         hist'[n].ret # "threw" /\ RestOfCleanupDone(n, f)]_vars

(***************************************************************************)
(* C27. Relay of the manager's signaling messages                          *)
(***************************************************************************)
\* C27: an offer, answer or ICE candidate as the manager emits it, sent by
\* a registered user to another registered user, is forwarded by the server
\* to the addressed socket and to no other, with the description or
\* candidate it carried.
C27_ManagerMessageIsRelayed ==
  [][\A s \in Sockets, e \in SigEvents, to \in Sockets, b \in Bodies :
       /\ s # to /\ {s, to} \subseteq srv.activeUsers
       /\ SrvSignal(s, e, ManagerPayload(s, e, to, b))
       => /\ Len(srv'.emitted) = 1
          /\ srv'.emitted[1].to = to
          /\ srv'.emitted[1].event = e
          /\ Field(srv'.emitted[1].data, BodyField(e)) = b]_vars

(***************************************************************************)
(* C28. Quality monitors of peers without an entry                         *)
(***************************************************************************)
\* The monitors started for peer p whose sampling timer is active
RunningMonitors(n, p) ==
  {i \in DOMAIN mons[n] : mons[n][i].peer = p /\ mons[n][i].running}

\* C28: whenever the manager holds no entry for a peer, no quality monitor
\* started for that peer has an active sampling timer.
C28_NoEntryNoRunningMonitor ==
  \A n \in Users : \A p \in Users :
    ~MapHas(mgr[n].peerConnections, p) => RunningMonitors(n, p) = {}

(***************************************************************************)
(* C29. A failing offer, answer or candidate                               *)
(***************************************************************************)
\* Applying the offer, answer or candidate at the head of connection c's
\* chain fails in this step: the platform rejects it, or the signaling
\* state does not admit it
ApplyFails(n, c) ==
  /\ pcs[n][c].ops # <<>>
  /\ Head(pcs[n][c].ops).op \in RemoteOps
  /\ \/ PcOpStep(n, c, "fail")
     \/ PcOpStep(n, c, "run") /\ ~OpValid(pcs[n][c], Head(pcs[n][c].ops).op)

\* The entries and connections of the peers other than p, the local tracks
\* and the local detector of user n are as they were
OthersUntouched(n, p) ==
  /\ \A d \in DOMAIN pcs[n] : pcs[n][d].peer # p => pcs'[n][d] = pcs[n][d]
  /\ \A q \in Users \ {p} :
       /\ MapGet(mgr'[n].peerConnections, q) = MapGet(mgr[n].peerConnections, q)
       /\ MapGet(mgr'[n].audioQualityMonitors, q)
            = MapGet(mgr[n].audioQualityMonitors, q)
  /\ \A i \in DOMAIN mons[n] : mons[n][i].peer # p => mons'[n][i] = mons[n][i]
  /\ tracks'[n] = tracks[n] /\ mgr'[n].localStream = mgr[n].localStream
  /\ dets'[n] = dets[n] /\ mgr'[n].speakingDetector = mgr[n].speakingDetector

\* C29: when applying an offer, an answer or an ICE candidate of peer P
\* fails, onError is called, the operation awaiting it does not throw, and
\* the entries of the other peers, the local tracks and the local speaking
\* detector are unchanged.
C29_FailedApplyIsContained ==
  [][\A n \in Users : \A c \in DOMAIN pcs[n] :
       ApplyFails(n, c) =>
         /\ \E i \in DOMAIN cb'[n] : cb'[n][i].name = "onError"
         /\ hist'[n].ret # "threw"
         /\ OthersUntouched(n, pcs[n][c].peer)]_vars

\* An offer of B was rejected while the manager, with a live track and a
\* running detector, held an entry for C as well: onError was called and
\* acceptIncomingCall returned
C29_Witness ==
  /\ \E i \in DOMAIN cb["A"] : cb["A"][i].name = "onError"
  /\ hist["A"].ret = "ok"
  /\ MapHas(mgr["A"].peerConnections, "C")
  /\ MapHas(mgr["A"].peerConnections, "B")
  /\ LET c == MapGet(mgr["A"].peerConnections, "B") IN
       /\ pcs["A"][c].ops = <<>> /\ ~pcs["A"][c].remoteDesc
       /\ ~pcs["A"][c].localDesc /\ pcs["A"][c].signalingState = "stable"
  /\ mgr["A"].localStream # Null /\ tracks["A"][mgr["A"].localStream].live
  /\ mgr["A"].speakingDetector # Null
  /\ dets["A"][mgr["A"].speakingDetector].running

(***************************************************************************)
(* C30. The bitrate a tick of the quality monitor reports                  *)
(***************************************************************************)
\* C30: the first tick to complete reports no bitrate, and a bitrate that a
\* later tick reports is 8 x (bytes received at this tick - bytes received
\* at the previous tick) over the seconds between the two ticks, also when
\* ticks without an inbound audio record occur in the sequence.
C30_BitrateIsByteDeltaOverTime ==
  [][\A r \in QMReports :
       QMTickDone(r) =>
         /\ qm.stats.timestamp = Null => qm'.stats.bandwidth = Null
         /\ qm'.stats.bandwidth # Null =>
              /\ qm.stats.bytesReceived # Null
              /\ qm'.stats.bandwidth * (qmClock - qm.stats.timestamp)
                   = 8 * 1000 * (r.bytes - qm.stats.bytesReceived)]_vars

(***************************************************************************)
(* C40. What the signaling server forwards                                 *)
(***************************************************************************)
\* The objects a socket sends with event e in this model
SigPayloads(s, e) ==
  {ManagerPayload(s, e, to, b) : to \in Sockets, b \in Bodies}
  \cup {TargetPayload(e, to, b) : to \in Sockets, b \in Bodies}
  \cup {NamedSenderPayload(e, f, to, b) : f \in Sockets, to \in Sockets, b \in Bodies}

\* The messages of the last handler that are forwarded signaling messages
Forwarded(emitted) ==
  {i \in DOMAIN emitted : emitted[i].event \in SigEvents}

\* C40: every offer, answer or candidate the server forwards has `from`
\* equal to the sending socket's id, whatever the received object holds, and
\* is forwarded only when sender and target are both registered; otherwise
\* nothing is forwarded and the sender alone gets the error 'Invalid user'.
C40_ForwardNamesTheSender ==
  [][\A s \in Sockets, e \in SigEvents : \A data \in SigPayloads(s, e) :
       SrvSignal(s, e, data) =>
         IF {s, Field(data, "target")} \subseteq srv.activeUsers
         THEN /\ Forwarded(srv'.emitted) = DOMAIN srv'.emitted
              /\ \A i \in DOMAIN srv'.emitted :
                   /\ srv'.emitted[i].data["from"] = s
                   /\ srv'.emitted[i].to = Field(data, "target")
         ELSE /\ Forwarded(srv'.emitted) = {}
              /\ srv'.emitted = <<SrvEmit(s, "error", InvalidUser)>>]_vars

\* An offer was forwarded from one registered user to another
C40_Witness ==
  /\ Len(srv.emitted) = 1
  /\ srv.emitted[1].event = "offer"
  /\ srv.emitted[1].to \in srv.activeUsers
  /\ srv.emitted[1].data["from"] \in srv.activeUsers \ {srv.emitted[1].to}

(***************************************************************************)
(* C38. The values delivered to onSpeakingChange                           *)
(***************************************************************************)
\* The delivered values alternate, the first being true
Alternates(vals) == \A i \in DOMAIN vals : vals[i] = (i % 2 = 1)

\* The value delivered last, false when none was delivered
LastDelivered(vals) == IF vals = <<>> THEN FALSE ELSE vals[Len(vals)]

\* C38: after any sequence of start(), sampling ticks and stop(), the value
\* most recently delivered to onSpeakingChange equals isSpeaking() (false
\* when nothing has been delivered), and the delivered values alternate
\* starting with true.
C38_DeliveredValueIsSpeaking ==
  /\ LastDelivered(sdDelivered) = sd.speaking
  /\ Alternates(sdDelivered)

(***************************************************************************)
(* C36. Callbacks of a stopped quality monitor                             *)
(***************************************************************************)
\* C36: while the monitor is stopped (from stop() until the next start())
\* no step invokes onQualityChange, also when a tick's getStats() request
\* was pending at the time of stop().
C36_StoppedMonitorIsSilent ==
  [][~qm.monitorInterval => qmCalls' = qmCalls]_vars

(***************************************************************************)
(* C32, C37. What the screen-sharing operations return                     *)
(***************************************************************************)
\* A startScreenSharing() call, made directly or by toggleScreenSharing(),
\* settles in this step
StartSettles ==
  \/ \E f \in FailAts, e \in BOOLEAN : VDisplayResolve(f, e)
  \/ VDisplayReject

\* C32: the value toggleScreenSharing() returns is the screen-sharing status
\* after the call: true exactly when screen sharing is then active.
C32_ToggleReturnsNewStatus ==
  [][(VToggleScreenSharing /\ vret' # NoneSettled) \/ StartSettles =>
       (vret' = Returned(TRUE)) = vm'.isScreenSharing]_vars

\* C37: when startScreenSharing() of a manager that was not sharing returns
\* false, isScreenSharing is false, localScreenStream is null and the
\* display track the call captured, if any, is not live.
C37_FailedStartLeavesNoShare ==
  [][StartSettles /\ ~vm.isScreenSharing /\ vret' = Returned(FALSE) =>
       /\ ~vm'.isScreenSharing
       /\ vm'.localScreenStream = Null
       /\ \A t \in DOMAIN vtracks' \ DOMAIN vtracks : ~vtracks'[t].live]_vars

(***************************************************************************)
(* C33. A state change of a replaced connection                            *)
(***************************************************************************)
\* Connection c of user n was replaced: the entry of its peer holds another
\* connection
Replaced(n, c) ==
  MapGet(mgr[n].peerConnections, pcs[n][c].peer) \notin {c, Null}

\* The entry of peer p, its connection and the monitor stored for p are
\* after the step what they were before it
EntryKept(n, p) ==
  LET cur == MapGet(mgr[n].peerConnections, p)
      m == MapGet(mgr[n].audioQualityMonitors, p)
  IN /\ MapGet(mgr'[n].peerConnections, p) = cur
     /\ pcs'[n][cur].connectionState = pcs[n][cur].connectionState
     /\ pcs'[n][cur].handlers = pcs[n][cur].handlers
     /\ MapGet(mgr'[n].audioQualityMonitors, p) = m
     /\ m # Null => mons'[n][m].running = mons[n][m].running

\* C33: a connection-state change of a connection that was replaced by a
\* newer one for the same peer leaves the peer's current entry in place and
\* open, and its quality monitor running.
C33_ReplacedConnectionLeavesEntry ==
  [][\A n \in Users : \A c \in DOMAIN pcs[n] :
       \A st \in {"connected"} \cup LossStates :
         ConnectionStateChange(n, c, st) /\ Replaced(n, c) =>
           EntryKept(n, pcs[n][c].peer)]_vars

(***************************************************************************)
(* Calls after the microphone was regained                                 *)
(***************************************************************************)
\* The manager whose initialize() failed with a denied permission and whose
\* later retryMicrophoneAccess() returned true, with no initialize() since
MicrophoneRegained(n) == hist[n].mic = "regained"

\* C34: once initialize() failed with permission denied and a later
\* retryMicrophoneAccess() succeeded, startCall(peerId) does not throw: it
\* creates the peer's entry and starts the offer it will send.
C34_CallAfterRegainedMicrophone ==
  [][\A n \in Users : \A p \in Users :
       StartCall(n, p, FALSE) /\ MicrophoneRegained(n) =>
         /\ hist'[n].ret # "threw"
         /\ MapHas(mgr'[n].peerConnections, p)
         /\ Len(pcs'[n]) = Len(pcs[n]) + 1]_vars

(***************************************************************************)
(* What a manager still does after leaveRoom()                             *)
(***************************************************************************)
\* The last step of user n was leaveRoom() returning
JustLeft(n) == hist[n].leaveRuns >= 1

\* The step emits no offer, answer or candidate and calls neither onError
\* nor onPeerConnect
Silent(n) ==
  /\ \A i \in DOMAIN sent'[n] : sent'[n][i].type \notin {"offer", "answer", "iceCandidate"}
  /\ \A i \in DOMAIN cb'[n] : cb'[n][i].name \notin {"onError", "onPeerConnect"}

\* C35: once leaveRoom() returned, a negotiation that was awaiting completion
\* emits no offer, answer or candidate and calls neither onError nor
\* onPeerConnect.
C35_NothingAfterLeaveRoom ==
  [][\A n \in Users : \A c \in DOMAIN pcs[n] : \A o \in PcOutcomes :
       JustLeft(n) /\ PcOpStep(n, c, o) => Silent(n)]_vars

(***************************************************************************)
(* The video manager's socket events after it joined a room again          *)
(***************************************************************************)
\* initialize(roomId) succeeded and leaveRoom() was not called since
InRoom == vm.roomId = "room" /\ vm.localStream # Null

\* C39: whenever the video-capable manager is in a room, also one it joined
\* with initialize(roomId) after a leaveRoom() on the same instance, its
\* socket events are handled: a peer that joins gets an entry in
\* peerConnections and an offer that can be applied gets an answer.
C39_EventsHandledAfterRejoin ==
  [][\A p \in VPeers :
       /\ VUserConnected(p) /\ InRoom => VEntry(vm'.peerConnections, p) # Null
       /\ VReceiveOffer(p, TRUE) /\ InRoom => p \in vm'.answered]_vars

(***************************************************************************)
(* Adaptive quality of the video quality monitor                           *)
(***************************************************************************)
\* The monitor was constructed in adaptive mode and the application chose no
\* preset itself since
AdaptiveRun == ~wq.byApp

\* C31: in a run in adaptive mode, every monitoring tick that scores stats and
\* computes a target preset other than the current one passes that preset to
\* onQualityChange, the later ticks of the run like the first.
C31_EveryTickRecommends ==
  [][\A r \in WqRtts, b \in WqBitrates, f \in WqFrameRates :
       LET target == TargetQuality(QualityScore(wq.currentQuality, r, b, f), r) IN
       WqTick(r, b, f) /\ wq.hasLast /\ AdaptiveRun /\ target # wq.currentQuality =>
         wq'.rec = target]_vars

====
